---- MODULE Spec2Model ----
(***************************************************************************)
(* A model of the autoplay engine (src/autoplay.py), its providers         *)
(* (src/providers/*.py) and its event emitter (src/events.py).             *)
(*                                                                         *)
(* Python strings that the code inspects character by character (source    *)
(* labels, URIs, titles, track ids) are sequences of one-character         *)
(* strings; messages that are only compared are TLA+ strings.              *)
(***************************************************************************)
EXTENDS Integers, Sequences, FiniteSets, TLC

(***************************************************************************)
(* Python values                                                           *)
(***************************************************************************)

\* Python's None where a str is expected (Optional[str]).
None == <<"None">>

\* A missing LavalinkTrackInfo (track_info is None).
NoTrack == [absent |-> TRUE]

\* bool(x) of an Optional[str]: None and '' are falsy.
Truthy(x) == x # None /\ x # <<>>

\* str.lower(), on ASCII letters.
UpperToLower ==
    ("A" :> "a") @@ ("B" :> "b") @@ ("C" :> "c") @@ ("D" :> "d") @@
    ("E" :> "e") @@ ("F" :> "f") @@ ("G" :> "g") @@ ("H" :> "h") @@
    ("I" :> "i") @@ ("J" :> "j") @@ ("K" :> "k") @@ ("L" :> "l") @@
    ("M" :> "m") @@ ("N" :> "n") @@ ("O" :> "o") @@ ("P" :> "p") @@
    ("Q" :> "q") @@ ("R" :> "r") @@ ("S" :> "s") @@ ("T" :> "t") @@
    ("U" :> "u") @@ ("V" :> "v") @@ ("W" :> "w") @@ ("X" :> "x") @@
    ("Y" :> "y") @@ ("Z" :> "z")

LowerChar(ch) == IF ch \in DOMAIN UpperToLower THEN UpperToLower[ch] ELSE ch

Lower(s) == [i \in 1..Len(s) |-> LowerChar(s[i])]

\* str.upper() of one ASCII letter (used only to enumerate case variants).
UpperChar(ch) ==
    IF \E u \in DOMAIN UpperToLower : UpperToLower[u] = ch
    THEN CHOOSE u \in DOMAIN UpperToLower : UpperToLower[u] = ch
    ELSE ch

\* `needle in hay` for Python strings.
Contains(hay, needle) ==
    \E i \in 0..(Len(hay) - Len(needle)) :
        \A j \in 1..Len(needle) : hay[i + j] = needle[j]

\* Character classes of Python's re module, on ASCII.
Digits == {"0", "1", "2", "3", "4", "5", "6", "7", "8", "9"}

Letters == DOMAIN UpperToLower \cup { UpperToLower[u] : u \in DOMAIN UpperToLower }

\* \w
IsWordChar(ch) == ch \in Letters \cup Digits \cup {"_"}

\* \s (the model's strings hold no other white space than the blank)
IsSpace(ch) == ch = " "

\* s[:n]
TakeFirst(s, n) == SubSeq(s, 1, IF n < Len(s) THEN n ELSE Len(s))

\* str.strip()
Strip(s) ==
    LET inner == { i \in 1..Len(s) : ~IsSpace(s[i]) } IN
    IF inner = {} THEN <<>>
    ELSE LET first == CHOOSE i \in inner : \A j \in inner : i <= j
             last == CHOOSE i \in inner : \A j \in inner : j <= i
         IN SubSeq(s, first, last)

\* None in an Optional field whose values the model writes as TLA+ strings.
NoneStr == "<None>"

(***************************************************************************)
(* src/types.py                                                            *)
(***************************************************************************)

YOUTUBE == "youtube"
SPOTIFY == "spotify"
SOUNDCLOUD == "soundcloud"

AutoplaySource == {YOUTUBE, SPOTIFY, SOUNDCLOUD}

LavalinkTrackInfo(title, author, identifier, uri, source_name) ==
    [title |-> title, author |-> author, identifier |-> identifier,
     uri |-> uri, source_name |-> source_name]

(***************************************************************************)
(* LavalinkAutoplay.map_source_name                                        *)
(***************************************************************************)

YoutubeAliases ==
    { <<"y", "o", "u", "t", "u", "b", "e">>,
      <<"y", "t">>,
      <<"y", "t", "s", "e", "a", "r", "c", "h">>,
      <<"y", "t", "m", "s", "e", "a", "r", "c", "h">> }

SpotifyAliases ==
    { <<"s", "p", "o", "t", "i", "f", "y">>,
      <<"s", "p">>,
      <<"s", "p", "s", "e", "a", "r", "c", "h">>,
      <<"s", "p", "r", "e", "c">> }

SoundcloudAliases ==
    { <<"s", "o", "u", "n", "d", "c", "l", "o", "u", "d">>,
      <<"s", "c">>,
      <<"s", "c", "s", "e", "a", "r", "c", "h">> }

YoutubeComHost == <<"y", "o", "u", "t", "u", "b", "e", ".", "c", "o", "m">>
YoutuBeHost == <<"y", "o", "u", "t", "u", ".", "b", "e">>
SpotifyComHost == <<"s", "p", "o", "t", "i", "f", "y", ".", "c", "o", "m">>
SoundcloudComHost ==
    <<"s", "o", "u", "n", "d", "c", "l", "o", "u", "d", ".", "c", "o", "m">>

\* The branch of lines 45-53 with the test for spotify.com made first.
DetectFromUri_SpotifyFirst(track_info) ==
    IF track_info # NoTrack /\ Truthy(track_info.uri)
    THEN LET uri == Lower(track_info.uri) IN
         IF Contains(uri, SpotifyComHost) THEN SPOTIFY
         ELSE IF Contains(uri, YoutubeComHost) \/ Contains(uri, YoutuBeHost)
         THEN YOUTUBE
         ELSE IF Contains(uri, SoundcloudComHost) THEN SOUNDCLOUD
         ELSE YOUTUBE
    ELSE YOUTUBE

\* Lines 45-53: the branch taken for an empty or missing label.
DetectFromUri(track_info) ==
    IF track_info # NoTrack /\ Truthy(track_info.uri)
    THEN LET uri == Lower(track_info.uri) IN
         IF Contains(uri, YoutubeComHost) \/ Contains(uri, YoutuBeHost)
         THEN YOUTUBE
         ELSE IF Contains(uri, SpotifyComHost) THEN SPOTIFY
         ELSE IF Contains(uri, SoundcloudComHost) THEN SOUNDCLOUD
         ELSE YOUTUBE
    ELSE YOUTUBE

\* Lines 55-65: the alias table, matched against the lower-cased label.
MatchAlias(source_lower) ==
    IF source_lower \in YoutubeAliases THEN YOUTUBE
    ELSE IF source_lower \in SpotifyAliases THEN SPOTIFY
    ELSE IF source_lower \in SoundcloudAliases THEN SOUNDCLOUD
    ELSE YOUTUBE

\* The label without lower().
NormalizeLabel_AsGiven(source_name) == source_name

\* The label as the alias table sees it.
NormalizeLabel(source_name) == Lower(source_name)

\* map_source_name falling back to the URI for a label no alias matches.
map_source_name_SniffsUnknown(source_name, track_info) ==
    IF ~Truthy(source_name)
    THEN DetectFromUri(track_info)
    ELSE IF NormalizeLabel(source_name) \in
              YoutubeAliases \cup SpotifyAliases \cup SoundcloudAliases
    THEN MatchAlias(NormalizeLabel(source_name))
    ELSE DetectFromUri(track_info)

map_source_name(source_name, track_info) ==
    IF ~Truthy(source_name)
    THEN DetectFromUri(track_info)
    ELSE MatchAlias(NormalizeLabel(source_name))

(***************************************************************************)
(* src/types.py: AutoplayResult, and src/providers/base.py                 *)
(***************************************************************************)

AutoplayResult(success, url, track_id, source, error) ==
    [success |-> success, url |-> url, track_id |-> track_id,
     source |-> source, error |-> error]

\* A track_id of None leaves the field at its default, None.
\* create_success_result that also fills the error field.
create_success_result_WithError(self_source, url, track_id) ==
    AutoplayResult(TRUE, url, track_id, self_source, "")

create_success_result(self_source, url, track_id) ==
    AutoplayResult(TRUE, url, track_id, self_source, NoneStr)

\* create_error_result without `source=self.source`.
create_error_result_NoSource(self_source, error) ==
    AutoplayResult(FALSE, None, None, NoneStr, error)

create_error_result(self_source, error) ==
    AutoplayResult(FALSE, None, None, self_source, error)

\* validate_track_info without the test of the author.
validate_track_info_TitleOnly(track_info) ==
    /\ track_info # NoTrack
    /\ Truthy(track_info.title)

validate_track_info(track_info) ==
    /\ track_info # NoTrack
    /\ Truthy(track_info.title)
    /\ Truthy(track_info.author)

InvalidTrackInfo == "Invalid track info provided"

(***************************************************************************)
(* What a provider's I/O answers.  eura.search(...) raises, returns        *)
(* nothing, or returns tracks; sc_auto_play returns a URL or None.         *)
(***************************************************************************)

Raises(message) == [kind |-> "raise", message |-> message]
NoResults == [kind |-> "none"]
SearchResults(tracks) == [kind |-> "tracks", tracks |-> tracks]
RecommendedUrl(url) == [kind |-> "url", url |-> url]

\* One element of results.tracks; info is FALSE when the object has no .info.
SearchTrack(identifier, uri) == [info |-> TRUE, identifier |-> identifier, uri |-> uri]
TrackWithoutInfo == [info |-> FALSE, identifier |-> None, uri |-> None]

(***************************************************************************)
(* src/providers/youtube.py                                                *)
(***************************************************************************)

YT_SEARCH_LIMIT == 10
YT_RETURN_LIMIT == 5

RECURSIVE CollapseSpaces(_)
\* re.sub(r'\s+', ' ', query)
CollapseSpaces(s) ==
    IF Len(s) <= 1 THEN s
    ELSE IF IsSpace(s[1]) /\ IsSpace(s[2]) THEN CollapseSpaces(Tail(s))
    ELSE <<s[1]>> \o CollapseSpaces(Tail(s))

\* re.sub(r'[^\w\s-]', '', query)
RemoveSpecialChars(s) ==
    LET Keep(ch) == IsWordChar(ch) \/ IsSpace(ch) \/ ch = "-" IN SelectSeq(s, Keep)

create_search_query(track_info) ==
    LET title == IF Truthy(track_info.title) THEN track_info.title ELSE <<>>
        author == IF Truthy(track_info.author) THEN track_info.author ELSE <<>>
    IN CollapseSpaces(RemoveSpecialChars(Strip(title \o <<" ">> \o author)))

NoYouTubeTracks == "No YouTube autoplay tracks found"

\* get_youtube_autoplay_tracks reaches `await self.eura.search(...)`.
YouTubeSearches(track_info, eura) ==
    /\ eura # NoneStr
    /\ create_search_query(track_info) # <<>>

\* get_youtube_autoplay_tracks from the answer of the search on.
YouTubeFilter(tracks, exclude_ids) ==
    LET Keep(t) == t.info /\ Truthy(t.identifier) /\ t.identifier \notin exclude_ids
    IN SelectSeq(tracks, Keep)

\* get_youtube_autoplay_tracks without the `tracks[:5]` of line 66.
get_youtube_autoplay_tracks_NoReturnLimit(response, exclude_ids) ==
    IF response.kind = "raise" THEN <<>>
    ELSE IF response.kind = "none" THEN <<>>
    ELSE IF response.tracks = <<>> THEN <<>>
    ELSE YouTubeFilter(TakeFirst(response.tracks, YT_SEARCH_LIMIT), exclude_ids)

get_youtube_autoplay_tracks(response, exclude_ids) ==
    IF response.kind = "raise" THEN <<>>
    ELSE IF response.kind = "none" THEN <<>>
    ELSE IF response.tracks = <<>> THEN <<>>
    ELSE TakeFirst(YouTubeFilter(TakeFirst(response.tracks, YT_SEARCH_LIMIT),
                                 exclude_ids),
                   YT_RETURN_LIMIT)

\* The results get_next_track can return: random.choice picks any candidate.
YouTubeResults(response, exclude_ids) ==
    LET tracks == get_youtube_autoplay_tracks(response, exclude_ids) IN
    IF tracks = <<>>
    THEN { create_error_result(YOUTUBE, NoYouTubeTracks) }
    ELSE { create_success_result(YOUTUBE, tracks[i].uri, tracks[i].identifier) :
             i \in 1..Len(tracks) }

(***************************************************************************)
(* src/providers/spotify.py                                                *)
(***************************************************************************)

NoSpotifyTracks == "No Spotify autoplay tracks found"

\* get_spotify_autoplay_tracks reaches `await self.eura.search(...)`.
SpotifySearches(track_info, eura) ==
    /\ eura # NoneStr
    /\ Truthy(track_info.identifier)

\* The dict of the first track, or None (modelled as TrackWithoutInfo).
resolve_with_lavalink(response) ==
    IF response.kind = "raise" THEN TrackWithoutInfo
    ELSE IF response.kind = "none" THEN TrackWithoutInfo
    ELSE IF response.tracks = <<>> THEN TrackWithoutInfo
    ELSE response.tracks[1]

\* The provider without its check against the exclude set.
get_spotify_autoplay_tracks_Unfiltered(response, exclude_ids) ==
    LET selected_track == resolve_with_lavalink(response) IN
    IF ~selected_track.info THEN <<>> ELSE <<selected_track>>

\* The provider falling back to the next track that is not excluded.
get_spotify_autoplay_tracks_NextCandidate(response, exclude_ids) ==
    IF response.kind # "tracks" THEN <<>>
    ELSE LET Keep(t) == t.info /\ t.identifier \notin exclude_ids
         IN TakeFirst(SelectSeq(response.tracks, Keep), 1)

get_spotify_autoplay_tracks(response, exclude_ids) ==
    LET selected_track == resolve_with_lavalink(response) IN
    IF ~selected_track.info THEN <<>>
    ELSE IF selected_track.identifier \in exclude_ids THEN <<>>
    ELSE <<selected_track>>

SpotifyResults(response, exclude_ids) ==
    LET tracks == get_spotify_autoplay_tracks(response, exclude_ids) IN
    IF tracks = <<>>
    THEN { create_error_result(SPOTIFY, NoSpotifyTracks) }
    ELSE { create_success_result(SPOTIFY, tracks[1].uri, tracks[1].identifier) }

(***************************************************************************)
(* src/providers/soundcloud.py                                             *)
(***************************************************************************)

NoSoundCloudTracks == "No SoundCloud autoplay tracks found"

TracksMarker == <<"/", "t", "r", "a", "c", "k", "s", "/">>

\* re.search(r'/tracks/(\d+)', url): the digits after the first "/tracks/"
\* that a digit follows, or None.
extract_track_id(url) ==
    LET n == Len(TracksMarker)
        starts == { i \in 0..(Len(url) - n - 1) :
                      /\ \A j \in 1..n : url[i + j] = TracksMarker[j]
                      /\ url[i + n + 1] \in Digits }
    IN IF starts = {} THEN None
       ELSE LET i == CHOOSE k \in starts : \A m \in starts : k <= m
                from == i + n + 1
                stops == { k \in from..Len(url) :
                             k = Len(url) \/ url[k + 1] \notin Digits }
                to == CHOOSE k \in stops : \A m \in stops : k <= m
            IN SubSeq(url, from, to)

\* get_soundcloud_autoplay_tracks reaches `await sc_auto_play(base_url)`.
SoundCloudFetches(track_info) == Truthy(track_info.uri)

get_soundcloud_autoplay_tracks(response, exclude_ids) ==
    IF response.kind # "url" THEN <<>>
    ELSE IF ~Truthy(response.url) THEN <<>>
    ELSE LET track_id == extract_track_id(response.url) IN
         IF Truthy(track_id) /\ track_id \in exclude_ids THEN <<>>
         ELSE << SearchTrack(IF Truthy(track_id) THEN track_id ELSE <<>>,
                             response.url) >>

SoundCloudResults(response, exclude_ids) ==
    LET tracks == get_soundcloud_autoplay_tracks(response, exclude_ids) IN
    IF tracks = <<>>
    THEN { create_error_result(SOUNDCLOUD, NoSoundCloudTracks) }
    ELSE { create_success_result(SOUNDCLOUD, tracks[1].uri, tracks[1].identifier) }

(***************************************************************************)
(* src/utils/autoplay_apis.py: sc_auto_play                                *)
(***************************************************************************)

MAX_SC_LINKS == 20

\* What fast_fetch gives sc_auto_play: an exception, or a page, of which the
\* model keeps the hrefs that SC_LINK_PATTERN matches, in document order.
Page(hrefs) == [kind |-> "page", hrefs |-> hrefs]

SoundCloudPrefix ==
    <<"h", "t", "t", "p", "s", ":", "/", "/", "s", "o", "u", "n", "d", "c",
      "l", "o", "u", "d", ".", "c", "o", "m">>

\* The loop of lines 49-52 without its break.
found_links_NoBreak(hrefs) == [i \in 1..Len(hrefs) |-> SoundCloudPrefix \o hrefs[i]]

\* `found` after the loop of lines 49-52: a link for each match, until
\* there are MAX_SC_LINKS of them.
found_links(hrefs) ==
    [i \in 1..Len(TakeFirst(hrefs, MAX_SC_LINKS)) |-> SoundCloudPrefix \o hrefs[i]]

\* The values sc_auto_play can return: None when the fetch raised or no
\* anchor matched, else random.choice of the links found.
sc_auto_play(fetched) ==
    IF fetched.kind = "raise" THEN { RecommendedUrl(None) }
    ELSE LET links == found_links(fetched.hrefs)
         IN IF links = <<>> THEN { RecommendedUrl(None) }
            ELSE { RecommendedUrl(links[i]) : i \in 1..Len(links) }

(***************************************************************************)
(* The three built-in providers behind one get_next_track                  *)
(***************************************************************************)

\* The provider awaits its search or fetch (it returns at once otherwise).
ProviderAwaits(source, track_info, eura) ==
    /\ validate_track_info(track_info)
    /\ CASE source = YOUTUBE -> YouTubeSearches(track_info, eura)
         [] source = SPOTIFY -> SpotifySearches(track_info, eura)
         [] source = SOUNDCLOUD -> SoundCloudFetches(track_info)

\* The result of a provider that returns without awaiting anything.
ProviderReturnsAtOnce(source, track_info) ==
    IF ~validate_track_info(track_info)
    THEN create_error_result(source, InvalidTrackInfo)
    ELSE create_error_result(source,
            CASE source = YOUTUBE -> NoYouTubeTracks
              [] source = SPOTIFY -> NoSpotifyTracks
              [] source = SOUNDCLOUD -> NoSoundCloudTracks)

\* The results of a provider whose search or fetch answered `response`.
ProviderResults(source, response, exclude_ids) ==
    CASE source = YOUTUBE -> YouTubeResults(response, exclude_ids)
      [] source = SPOTIFY -> SpotifyResults(response, exclude_ids)
      [] source = SOUNDCLOUD -> SoundCloudResults(response, exclude_ids)

(***************************************************************************)
(* src/events.py: AutoplayEventEmitter.emit                                *)
(***************************************************************************)

\* A registered callback is "plain" (returns) or "raising" (raises an Exception).
ListenerRaises(callback) == callback = "raising"

\* The loop body without its try/except: the exception leaves emit.
CallListener_Uncaught(callback) ==
    IF ListenerRaises(callback) THEN "escaped" ELSE "returned"

\* One pass of the loop body: the callback returns, or its exception is
\* caught by the `except Exception` around the call.
CallListener(callback) ==
    IF ListenerRaises(callback) THEN "caught" ELSE "returned"

\* asyncio.iscoroutinefunction(callback)
ListenerIsAsync(callback) == callback = "async"

\* Line 36 for a coroutine function: callback(...) makes the coroutine
\* object without running its body, and asyncio.create_task schedules it, or
\* raises RuntimeError ("no running event loop"), which line 39 catches.
CallAsyncListener(callback, running) ==
    IF running THEN "scheduled" ELSE "caught"

\* The tasks one emit creates, in order.
emit_tasks(listeners, event, running) ==
    IF event \notin DOMAIN listeners THEN <<>>
    ELSE LET Scheduled(callback) ==
                 /\ ListenerIsAsync(callback)
                 /\ CallAsyncListener(callback, running) = "scheduled"
         IN SelectSeq(listeners[event], Scheduled)

\* list.remove taking every occurrence of callback out.
ListRemove_AllOccurrences(list, callback) ==
    LET Other(cb) == cb # callback IN SelectSeq(list, Other)

\* on(event, callback)
on(listeners, event, callback) ==
    [e \in DOMAIN listeners \cup {event} |->
        IF e # event THEN listeners[e]
        ELSE IF event \in DOMAIN listeners THEN Append(listeners[event], callback)
        ELSE <<callback>>]

\* list.remove(callback): the list without the first occurrence of callback;
\* the ValueError of a callback that is not in the list is passed over.
ListRemove(list, callback) ==
    LET at == { i \in 1..Len(list) : list[i] = callback } IN
    IF at = {} THEN list
    ELSE LET first == CHOOSE i \in at : \A j \in at : i <= j IN
         SubSeq(list, 1, first - 1) \o SubSeq(list, first + 1, Len(list))

\* off(event, callback)
off(listeners, event, callback) ==
    IF event \in DOMAIN listeners
    THEN [listeners EXCEPT ![event] = ListRemove(@, callback)]
    ELSE listeners

\* remove_all_listeners(event); event is NoneStr for "all events".
remove_all_listeners(listeners, event) ==
    IF event # NoneStr /\ event # ""
    THEN [e \in DOMAIN listeners \ {event} |-> listeners[e]]
    ELSE [e \in {} |-> <<>>]

\* emit with its try around the loop instead of inside it: the first
\* exception ends the loop and is passed over.
emit_TryAroundLoop(listeners, event) ==
    IF event \notin DOMAIN listeners
    THEN [invoked |-> <<>>, raised |-> FALSE]
    ELSE LET callbacks == listeners[event]
             failed == { i \in 1..Len(callbacks) : ListenerRaises(callbacks[i]) }
         IN IF failed = {}
            THEN [invoked |-> callbacks, raised |-> FALSE]
            ELSE [invoked |-> SubSeq(callbacks, 1,
                                 CHOOSE i \in failed : \A j \in failed : i <= j),
                  raised |-> FALSE]

\* The listeners emit invokes, in order, and whether an exception leaves emit
\* (the loop ends at the first exception that is not caught).
emit(listeners, event) ==
    IF event \notin DOMAIN listeners
    THEN [invoked |-> <<>>, raised |-> FALSE]
    ELSE LET callbacks == listeners[event]
             escaped == { i \in 1..Len(callbacks) :
                            CallListener(callbacks[i]) = "escaped" }
         IN IF escaped = {}
            THEN [invoked |-> callbacks, raised |-> FALSE]
            ELSE [invoked |-> SubSeq(callbacks, 1,
                                 CHOOSE i \in escaped : \A j \in escaped : i <= j),
                  raised |-> TRUE]

(***************************************************************************)
(* LavalinkAutoplay: the history                                           *)
(***************************************************************************)

\* self.track_history.get(guild_id, set())
HistoryOf(history, guild_id) ==
    IF guild_id \in DOMAIN history THEN history[guild_id] ELSE {}

\* The assignment that binds the set to every session of the history.
HistoryPut_EverySession(history, guild_id, ids) ==
    [g \in DOMAIN history \cup {guild_id} |-> ids]

\* self.track_history[guild_id] = ids
HistoryPut(history, guild_id, ids) ==
    [g \in DOMAIN history \cup {guild_id} |->
        IF g = guild_id THEN ids ELSE history[g]]

\* len(history_list[-n:]) for a list of `len` items and n >= 0: -0 is 0, and
\* history_list[0:] is the whole list.
TailLength(len, n) == IF n = 0 THEN len ELSE IF n < len THEN n ELSE len

\* set(history_list[-n:]): list(a_set) lists the set in its hash order,
\* which is unrelated to the order of insertion, so the tail is any subset of
\* that size.
TailOfSet(ids, n) ==
    { kept \in SUBSET ids : Cardinality(kept) = TailLength(Cardinality(ids), n) }

\* add_to_history without the check of line 69.
add_to_history_Unchecked(history, guild_id, track_id, max_size) ==
    LET grown == HistoryOf(history, guild_id) \cup {track_id} IN
    IF Cardinality(grown) > max_size
    THEN { [history |-> HistoryPut(history, guild_id, kept),
            stored |-> TRUE, replaced |-> TRUE] :
             kept \in TailOfSet(grown, max_size) }
    ELSE { [history |-> HistoryPut(history, guild_id, grown),
            stored |-> TRUE, replaced |-> FALSE] }

\* add_to_history: the histories it can leave.  `stored` tells that the id
\* was added to the session's set, `replaced` that the eviction bound a new set
\* object to the session.
add_to_history(history, guild_id, track_id, max_size) ==
    IF guild_id = "" \/ ~Truthy(track_id)
    THEN { [history |-> history, stored |-> FALSE, replaced |-> FALSE] }
    ELSE LET grown == HistoryOf(history, guild_id) \cup {track_id} IN
         IF Cardinality(grown) > max_size
         THEN { [history |-> HistoryPut(history, guild_id, kept),
                 stored |-> TRUE, replaced |-> TRUE] :
                  kept \in TailOfSet(grown, max_size) }
         ELSE { [history |-> HistoryPut(history, guild_id, grown),
                 stored |-> TRUE, replaced |-> FALSE] }

\* A lookup that creates the entry of an unknown session
\* (self.track_history.setdefault(guild_id, set())).
HistoryAfterLookup_SetDefault(history, guild_id) ==
    IF guild_id \in DOMAIN history THEN history
    ELSE [g \in DOMAIN history \cup {guild_id} |->
             IF g = guild_id THEN {} ELSE history[g]]

\* The history after self.track_history.get(guild_id, set()): dict.get
\* returns the default without storing it.
HistoryAfterLookup(history, guild_id) == history

is_in_history(history, guild_id, track_id) ==
    IF guild_id = "" \/ ~Truthy(track_id) THEN FALSE
    ELSE track_id \in HistoryOf(history, guild_id)

\* clear_history whose pop removes nothing.
clear_history_PopsNothing(history, guild_id) ==
    IF guild_id # "" /\ guild_id # NoneStr
    THEN history
    ELSE [g \in {} |-> {}]

\* clear_history(guild_id); guild_id is "" or NoneStr for "all sessions".
clear_history(history, guild_id) ==
    IF guild_id # "" /\ guild_id # NoneStr
    THEN [g \in DOMAIN history \ {guild_id} |-> history[g]]
    ELSE [g \in {} |-> {}]

(***************************************************************************)
(* LavalinkAutoplay.get_next_track and get_next_track_for_source, from the *)
(* provider's return on                                                    *)
(***************************************************************************)

GetNextTrack == "get_next_track"
GetNextTrackForSource == "get_next_track_for_source"

\* source.value, as the characters of the string
SourceValue(source) ==
    CASE source = YOUTUBE -> <<"y", "o", "u", "t", "u", "b", "e">>
      [] source = SPOTIFY -> <<"s", "p", "o", "t", "i", "f", "y">>
      [] source = SOUNDCLOUD -> <<"s", "o", "u", "n", "d", "c", "l", "o", "u", "d">>

NoTrackInfo == "No track info provided"

\* What the call would return without the check of lines 99 and 149: the
\* handler's report of the failed attribute access.
NoTrackResult_FromHandler ==
    AutoplayResult(FALSE, None, None, NoneStr,
        "Autoplay error: 'NoneType' object has no attribute 'source_name'")

\* Lines 100 and 150: what a call without track returns.
NoTrackResult == AutoplayResult(FALSE, None, None, NoneStr, NoTrackInfo)

\* What a provider's get_next_track gives the engine: a result or an exception.
Returns(result) == [kind |-> "result", result |-> result]

\* The provider was not called (or has not answered yet).
NoReply == [kind |-> "none"]

Event(event, source, error) == [event |-> event, source |-> source, error |-> error]

\* How one call ends: what it returned (or that it raised), the events it
\* published, and the history it leaves.
Ending(returned, result, emitted, added) ==
    [returned |-> returned, result |-> result, emitted |-> emitted,
     history |-> added.history, stored |-> added.stored, replaced |-> added.replaced]

NoResult == AutoplayResult(FALSE, None, None, NoneStr, NoneStr)

Untouched(history) == [history |-> history, stored |-> FALSE, replaced |-> FALSE]

\* The `except Exception as e` blocks (lines 136-143 and 183-190).
ExceptionHandler(api, track_info, source, message, emitted, added, listeners) ==
    LET error_msg == IF api = GetNextTrack
                     THEN "Autoplay error: " \o message
                     ELSE "Autoplay error for " \o source \o ": " \o message
        payload_source == IF api = GetNextTrack
                          THEN track_info.source_name
                          ELSE SourceValue(source)
        published == Append(emitted, Event("error", payload_source, error_msg))
    IN IF emit(listeners, "error").raised
       THEN Ending("exception", NoResult, published, added)
       ELSE Ending("result", AutoplayResult(FALSE, None, None, NoneStr, error_msg),
                   published, added)

ListenerError == "listener failed"

\* Lines 116 and 163 without the test of result.success.
ShouldRecord_AnyId(result) == Truthy(result.track_id)

\* Lines 116 and 163: `if result.success and result.track_id`.
ShouldRecord(result) == result.success /\ Truthy(result.track_id)

\* Lines 116-134 and 163-181, for the result the provider returned.
AfterProvider(api, track_info, source, guild_id, result, history, max_size, listeners) ==
    IF ShouldRecord(result)
    THEN { LET published == <<Event("success", SourceValue(source), NoneStr)>> IN
           IF emit(listeners, "success").raised
           THEN ExceptionHandler(api, track_info, source, ListenerError,
                                 published, added, listeners)
           ELSE Ending("result", result, published, added) :
             added \in add_to_history(history, guild_id, result.track_id, max_size) }
    ELSE { LET published == <<Event("error", SourceValue(source), result.error)>> IN
           IF emit(listeners, "error").raised
           THEN ExceptionHandler(api, track_info, source, ListenerError,
                                 published, Untouched(history), listeners)
           ELSE Ending("result", result, published, Untouched(history)) }

\* The endings of a call whose provider gave `reply`.
Endings(api, track_info, source, guild_id, reply, history, max_size, listeners) ==
    IF reply.kind = "raise"
    THEN { ExceptionHandler(api, track_info, source, reply.message, <<>>,
                            Untouched(history), listeners) }
    ELSE AfterProvider(api, track_info, source, guild_id, reply.result,
                       history, max_size, listeners)

(***************************************************************************)
(* Inputs of map_source_name                                               *)
(***************************************************************************)

\* The aliases a label is expected to match, with the source of each.
AliasTable ==
    { << <<"y", "o", "u", "t", "u", "b", "e">>, YOUTUBE >>,
      << <<"y", "t">>, YOUTUBE >>,
      << <<"y", "t", "s", "e", "a", "r", "c", "h">>, YOUTUBE >>,
      << <<"y", "t", "m", "s", "e", "a", "r", "c", "h">>, YOUTUBE >>,
      << <<"s", "p", "o", "t", "i", "f", "y">>, SPOTIFY >>,
      << <<"s", "p">>, SPOTIFY >>,
      << <<"s", "p", "s", "e", "a", "r", "c", "h">>, SPOTIFY >>,
      << <<"s", "p", "r", "e", "c">>, SPOTIFY >>,
      << <<"s", "o", "u", "n", "d", "c", "l", "o", "u", "d">>, SOUNDCLOUD >>,
      << <<"s", "c">>, SOUNDCLOUD >>,
      << <<"s", "c", "s", "e", "a", "r", "c", "h">>, SOUNDCLOUD >> }

AllAliases == { p[1] : p \in AliasTable }

\* Every way of writing s with some of its letters in upper case.
CaseVariants(s) ==
    { [i \in 1..Len(s) |-> IF i \in U THEN UpperChar(s[i]) ELSE s[i]] :
        U \in SUBSET (1..Len(s)) }

AliasLabels == UNION { CaseVariants(a) : a \in AllAliases }

\* Labels no alias matches: other names, aliases with padding or separators.
OtherLabels ==
    { <<"d", "e", "e", "z", "e", "r">>,
      <<"y", "t", " ">>,
      <<" ", "s", "p">>,
      <<"y", "-", "t">>,
      <<"s", "o", "u", "n", "d", "c", "l", "o", "u", "d", ".", "c", "o", "m">>,
      <<" ">> }

MapLabels == AliasLabels \cup OtherLabels \cup {<<>>, None}

MapUris ==
    { <<>>,
      None,
      <<"h", "t", "t", "p", "s", ":", "/", "/", "y", "o", "u", "t", "u", ".",
        "b", "e", "/", "x">>,
      <<"h", "t", "t", "p", "s", ":", "/", "/", "W", "W", "W", ".", "Y", "o",
        "u", "T", "u", "b", "e", ".", "c", "o", "m", "/", "w">>,
      <<"h", "t", "t", "p", "s", ":", "/", "/", "o", "p", "e", "n", ".", "s",
        "p", "o", "t", "i", "f", "y", ".", "c", "o", "m", "/", "t">>,
      <<"h", "t", "t", "p", "s", ":", "/", "/", "s", "o", "u", "n", "d", "c",
        "l", "o", "u", "d", ".", "c", "o", "m", "/", "a">>,
      <<"h", "t", "t", "p", "s", ":", "/", "/", "e", "x", "a", "m", "p", "l",
        "e", ".", "o", "r", "g", "/", "a">>,
      <<"h", "t", "t", "p", "s", ":", "/", "/", "s", "p", "o", "t", "i", "f",
        "y", ".", "c", "o", "m", "/", "y", "o", "u", "t", "u", ".", "b", "e">> }

MapTracks ==
    {NoTrack} \cup
    { LavalinkTrackInfo(<<"a">>, <<"b">>, <<"1">>, u, <<>>) : u \in MapUris }

(***************************************************************************)
(* Inputs of the engine                                                    *)
(***************************************************************************)

\* The largest max_history_size the model configures.
MaxHistorySize == 2

\* The longest list of tracks a search answers with.
MaxResults == 2

\* The track ids of the engine's runs, and those of the history's own runs.
TrackIds == { <<"1">>, <<"2">> }

HistoryIds == { <<"1">>, <<"2">>, <<"3">> }

SessionKeys == { "g1", "g2" }

\* guild_id arguments: the session keys and the empty string.
GuildArgs == SessionKeys \cup { "" }

\* The calls in progress at one time: one in a sequential run.
Calls == { "c1", "c2" }

SequentialCalls == { "c1" }

Clients == { "eura" }

\* The clients set_eura is called with: the constructor's, and another one.
LaterClients == Clients \cup { "eura2" }

\* Who holds a reference to the client: the engine, and the providers that
\* have an attribute eura (the SoundCloud provider has none).
ClientHolders == { "engine", YOUTUBE, SPOTIFY }

\* LavalinkAutoplay.__init__: the engine keeps eura_instance; the providers
\* start with None and are given the client `if self.eura`.
__init__eura(eura_instance) ==
    [h \in ClientHolders |->
        IF h = "engine" \/ eura_instance # NoneStr THEN eura_instance ELSE NoneStr]

set_eura_EngineOnly(held, eura_instance) ==
    [held EXCEPT !["engine"] = eura_instance]

\* LavalinkAutoplay.set_eura
set_eura(held, eura_instance) ==
    [h \in DOMAIN held |-> eura_instance]

\* The tracks handed to the engine: one per way through the providers.
TrackInputs ==
    { \* YouTube, by an upper-case alias
      LavalinkTrackInfo(<<"a">>, <<"b">>, <<"9">>, <<>>, <<"Y", "T">>),
      \* Spotify, with a seed id
      LavalinkTrackInfo(<<"a">>, <<"b">>, <<"9">>, <<>>,
                        <<"s", "p", "o", "t", "i", "f", "y">>),
      \* SoundCloud, found from the URI of a track without label
      LavalinkTrackInfo(<<"a">>, <<"b">>, <<>>, SoundCloudPrefix \o <<"/", "a">>, <<>>),
      \* no title
      LavalinkTrackInfo(<<>>, <<"b">>, <<"9">>, <<>>, <<"s", "p">>),
      \* an unknown label; title and author are blank, so the query is empty
      LavalinkTrackInfo(<<" ">>, <<" ">>, <<"9">>, <<>>,
                        <<"d", "e", "e", "z", "e", "r">>) }

\* The ids a search result or a provider's result can carry.
ResultIds == TrackIds \cup { <<>>, None }

SearchUri == <<"u">>

\* The elements of results.tracks: with each id, without .info, and without
\* uri (getattr(track.info, 'uri', '') is then '').
SearchTracks ==
    { SearchTrack(i, SearchUri) : i \in ResultIds }
    \cup { TrackWithoutInfo, SearchTrack(<<"2">>, <<>>) }

SeqsUpTo(S, n) == UNION { [1..k -> S] : k \in 0..n }

ErrorMessages == { "boom" }

Repeated(x, n) == [i \in 1..n |-> x]

\* Searches that answer with as many tracks as the YouTube provider reads,
\* and one more: tracks without id before one with an id, and tracks with
\* the same id before one with another id.
LongSearchResponses ==
    { SearchResults(Repeated(SearchTrack(<<>>, SearchUri), k)
                    \o << SearchTrack(<<"1">>, SearchUri) >>) :
        k \in { YT_SEARCH_LIMIT - 1, YT_SEARCH_LIMIT } }
    \cup { SearchResults(Repeated(SearchTrack(<<"1">>, SearchUri), k)
                         \o << SearchTrack(<<"2">>, <<>>) >>) :
             k \in { YT_RETURN_LIMIT - 1, YT_RETURN_LIMIT } }
    \cup { SearchResults(Repeated(TrackWithoutInfo, YT_SEARCH_LIMIT - YT_RETURN_LIMIT)
                         \o Repeated(SearchTrack(<<"1">>, SearchUri), YT_RETURN_LIMIT - 1)
                         \o << SearchTrack(<<"2">>, <<>>),
                               SearchTrack(<<"2">>, SearchUri) >>) }

SearchResponses ==
    { Raises(m) : m \in ErrorMessages } \cup { NoResults }
    \cup { SearchResults(ts) : ts \in SeqsUpTo(SearchTracks, MaxResults) }

\* The hrefs of the anchors of a recommendations page.
RecommendedHrefs ==
    { <<"/", "a", "/", "t", "r", "a", "c", "k", "s", "/", "1">>,
      <<"/", "t", "r", "a", "c", "k", "s", "/", "2", "/", "x">>,
      <<"/", "a", "/", "b">> }

\* What the fetch of the recommendations page gives: an exception, a page
\* without matching anchor, or a page with one.
SoundCloudPages ==
    { Raises(m) : m \in ErrorMessages }
    \cup { Page(<<>>) }
    \cup { Page(<<h>>) : h \in RecommendedHrefs }

SoundCloudResponses == UNION { sc_auto_play(fetched) : fetched \in SoundCloudPages }

Responses(source) ==
    IF source = SOUNDCLOUD THEN SoundCloudResponses ELSE SearchResponses

\* What a provider put in place of a built-in one (as the tests do) gives:
\* any result, or an exception.
InjectedReplies ==
    { Raises(m) : m \in ErrorMessages }
    \cup { Returns(AutoplayResult(TRUE, SearchUri, i, SPOTIFY, NoneStr)) :
             i \in ResultIds }
    \cup { Returns(AutoplayResult(FALSE, None, i, SPOTIFY, "No tracks found")) :
             i \in { None, <<"1">> } }

\* self.providers after set-up: the built-in providers, or injected ones.
ProviderSetups ==
    { [s \in AutoplaySource |-> "builtin"], [s \in AutoplaySource |-> "injected"] }

\* self.events._listeners after set-up: a raising listener followed by a
\* plain one, on both events.
ListenerSetups ==
    { [e \in {"success", "error"} |-> <<"raising", "plain">>] }

\* A call of add_to_history or clear_history by the application: its
\* arguments, and the history it found.
HistoryOp(op, guild_id, track_id, before) ==
    [op |-> op, guild_id |-> guild_id, track_id |-> track_id, before |-> before]

\* No such call was made yet.
NoHistoryOp == HistoryOp("none", "", <<>>, [g \in {} |-> {}])

\* The calls are not recorded (in the runs of the whole engine).
NotLogged == HistoryOp("unlogged", "", <<>>, [g \in {} |-> {}])

LogHistoryOp(log, op, guild_id, track_id, before) ==
    IF log = NotLogged THEN log ELSE HistoryOp(op, guild_id, track_id, before)

\* A provider's get_next_track(track_info, exclude_ids), called on its own:
\* where it stands, the searches and fetches it made, what they answered,
\* and what it returned.
ProviderCall(source, track_info, exclude_ids, client) ==
    [pc |-> "idle", source |-> source, track_info |-> track_info,
     exclude_ids |-> exclude_ids, eura |-> client, requests |-> <<>>,
     response |-> NoReply, returned |-> "none", result |-> NoResult]

\* No provider is called on its own.
NoProviderCall == [ProviderCall(NoneStr, NoTrack, {}, NoneStr) EXCEPT !.pc = "off"]

\* One emit: the event, the listeners registered for it, those invoked, and
\* whether an exception left emit.
EmitCall(event, registered, invoked, raised) ==
    [event |-> event, registered |-> registered, invoked |-> invoked,
     raised |-> raised, running |-> FALSE, scheduled |-> <<>>, ran |-> <<>>,
     next |-> 0, iterating |-> FALSE]

\* No emit was made since the listeners last changed.
NoEmit == EmitCall(NoneStr, <<>>, <<>>, FALSE)

\* One on, off or remove_all_listeners: its arguments, and the listeners it
\* found.
EmitterOp(op, event, callback, before) ==
    [op |-> op, event |-> event, callback |-> callback, before |-> before]

\* No such call was made since the last emit.
NoEmitterOp == EmitterOp("none", NoneStr, NoneStr, [e \in {} |-> <<>>])

\* No function of utils is called on its own.
NoUtilCall == [fn |-> "none"]

(***************************************************************************)
(* State                                                                   *)
(***************************************************************************)

VARIABLES
    max_history_size,   \* self.config.max_history_size
    track_history,      \* self.track_history: session key -> set of track ids
    providers,          \* self.providers: source -> "builtin" or "injected"
    eura,               \* the client held by the engine and by the providers
    eura_given,         \* the client last passed to the constructor or set_eura
    listeners,          \* self.events._listeners: event -> list of callbacks
    calls,              \* the get_next_track(_for_source) calls in progress
    history_before,     \* track_history before the step that ended a call
    history_op,         \* the last add_to_history or clear_history call made
    inserted,           \* per session, the ids add_to_history stored, in order
    map_label,          \* map_source_name: the source_name argument
    map_track,          \* map_source_name: the track_info argument
    map_result,         \* map_source_name: the value returned, "pending" before
    provider_call,      \* a provider's get_next_track called on its own
    emit_call,          \* the last emit of the emitter on its own
    emitter_op,         \* the last on, off or remove_all_listeners of the emitter
    util_call           \* a call of a function of utils, made on its own

mapVars == <<map_label, map_track, map_result>>

engineVars ==
    <<max_history_size, track_history, providers, eura, eura_given, listeners, calls,
      history_before, history_op, inserted>>

aloneVars == <<provider_call, emit_call, emitter_op, util_call>>

vars == <<engineVars, mapVars, aloneVars>>

(***************************************************************************)
(* map_source_name applied to one input                                    *)
(***************************************************************************)

MapInit ==
    /\ map_label \in MapLabels
    /\ map_track \in MapTracks
    /\ map_result = "pending"
    /\ max_history_size = 0
    /\ track_history = [g \in {} |-> {}]
    /\ providers = [s \in AutoplaySource |-> "builtin"]
    /\ eura = __init__eura(NoneStr)
    /\ eura_given = NoneStr
    /\ listeners = [e \in {} |-> <<>>]
    /\ calls = [c \in {} |-> 0]
    /\ history_before = [g \in {} |-> {}]
    /\ history_op = NotLogged
    /\ inserted = [g \in {} |-> 0]
    /\ provider_call = NoProviderCall
    /\ emit_call = NoEmit
    /\ emitter_op = NoEmitterOp
    /\ util_call = NoUtilCall

MapSourceName ==
    /\ map_result = "pending"
    /\ map_result' = map_source_name(map_label, map_track)
    /\ UNCHANGED <<map_label, map_track, engineVars, aloneVars>>

MapNext == MapSourceName

SpecMap == MapInit /\ [][MapNext]_vars

(***************************************************************************)
(* The engine                                                              *)
(***************************************************************************)

IdleCall ==
    [pc |-> "idle", api |-> "none", track_info |-> NoTrack, guild_id |-> "",
     source |-> NoneStr, exclude_live |-> FALSE, exclude_ids |-> {},
     start_history |-> {}, invoked |-> <<>>, provider_raised |-> FALSE,
     reply |-> NoReply, returned |-> "none", result |-> NoResult, emitted |-> <<>>,
     end_history |-> {}]

NoInsertions == [ids |-> <<>>, distinct |-> TRUE]

\* After LavalinkAutoplay(config, eura_instance), and the set-up, with the
\* given call slots; the insertions of `logged` sessions are recorded.
EngineInit(slots, logged) ==
    /\ max_history_size \in 0..MaxHistorySize
    /\ track_history = [g \in {} |-> {}]
    /\ providers \in ProviderSetups
    /\ eura_given \in Clients \cup {NoneStr}
    /\ eura = __init__eura(eura_given)
    /\ listeners \in ListenerSetups
    /\ calls = [c \in slots |-> IdleCall]
    /\ history_before = [g \in {} |-> {}]
    /\ history_op = IF logged = {} THEN NotLogged ELSE NoHistoryOp
    /\ inserted = [g \in logged |-> NoInsertions]
    /\ map_label = <<>>
    /\ map_track = NoTrack
    /\ map_result = "pending"
    /\ provider_call = NoProviderCall
    /\ emit_call = NoEmit
    /\ emitter_op = NoEmitterOp
    /\ util_call = NoUtilCall

Init == EngineInit(SequentialCalls, {})

\* A call is returning: nothing else runs until it has (see Return).
Returning == \E c \in DOMAIN calls : calls[c].pc = "done"

\* get_next_track behind a lock held over the whole call.
MayStart_OneAtATime(c) ==
    /\ ~Returning
    /\ \A d \in DOMAIN calls : calls[d].pc = "idle"

\* The slots are taken in order.
MayStart(c) ==
    /\ ~Returning
    /\ calls[c].pc = "idle"
    /\ c = "c2" => calls["c1"].pc # "idle"

Range(seq) == { seq[i] : i \in 1..Len(seq) }

\* The insertions into a session, for the ids stored in turn.
RecordInsertion(log, guild_id, track_id) ==
    IF guild_id \notin DOMAIN log THEN log
    ELSE [log EXCEPT ![guild_id] =
            IF track_id \in Range(@.ids) THEN [@ EXCEPT !.distinct = FALSE]
            ELSE IF @.distinct THEN [@ EXCEPT !.ids = Append(@, track_id)]
            ELSE @]

\* The exclude_ids of the calls that wait on their provider are references
\* to the session's set: they see an id added to it, and keep the old set
\* object when the session is bound to a new one.
ShareInsertion(cs, guild_id, track_id, replaced) ==
    [c \in DOMAIN cs |->
        IF cs[c].pc = "awaiting" /\ cs[c].exclude_live /\ cs[c].guild_id = guild_id
        THEN [cs[c] EXCEPT !.exclude_ids = @ \cup {track_id},
                           !.exclude_live = ~replaced]
        ELSE cs[c]]

\* clear_history unbinds the sets: the waiting calls keep the old objects.
Unshare(cs, guild_id) ==
    [c \in DOMAIN cs |->
        IF cs[c].pc = "awaiting" /\ cs[c].exclude_live
           /\ (guild_id \in {"", NoneStr} \/ cs[c].guild_id = guild_id)
        THEN [cs[c] EXCEPT !.exclude_live = FALSE]
        ELSE cs[c]]

\* autoplay.add_to_history(guild_id, track_id), called by the application.
AddToHistory(guild_id, track_id) ==
    /\ ~Returning
    /\ \E added \in add_to_history(track_history, guild_id, track_id, max_history_size) :
          /\ track_history' = added.history
          /\ calls' = IF added.stored
                      THEN ShareInsertion(calls, guild_id, track_id, added.replaced)
                      ELSE calls
          /\ inserted' = IF added.stored
                         THEN RecordInsertion(inserted, guild_id, track_id)
                         ELSE inserted
    /\ history_op' = LogHistoryOp(history_op, "add_to_history", guild_id, track_id,
                                  track_history)
    /\ UNCHANGED <<max_history_size, providers, eura, eura_given, listeners, history_before, mapVars, aloneVars>>

\* autoplay.clear_history(guild_id), called by the application.
ClearHistory(guild_id) ==
    /\ ~Returning
    /\ track_history' = clear_history(track_history, guild_id)
    /\ calls' = Unshare(calls, guild_id)
    /\ inserted' = [g \in DOMAIN inserted |->
                      IF guild_id \in {"", NoneStr} \/ g = guild_id
                      THEN NoInsertions ELSE inserted[g]]
    /\ history_op' = LogHistoryOp(history_op, "clear_history", guild_id, <<>>,
                                  track_history)
    /\ UNCHANGED <<max_history_size, providers, eura, eura_given, listeners, history_before, mapVars, aloneVars>>

\* autoplay.set_eura(eura_instance)
SetEura(eura_instance) ==
    /\ ~Returning
    /\ eura' = set_eura(eura, eura_instance)
    /\ eura_given' = eura_instance
    /\ eura' # eura
    /\ UNCHANGED <<max_history_size, track_history, providers, listeners, calls,
                   history_before, history_op, inserted, mapVars, aloneVars>>

\* get_next_track routed by the given source, without map_source_name.
Routed_AsGiven(api, track_info, source) == source

\* The source a call is routed to.
Routed(api, track_info, source) ==
    IF api = GetNextTrack
    THEN map_source_name(track_info.source_name, track_info)
    ELSE source

\* The call c ends with `ending`.
End(c, call, ending) ==
    /\ track_history' = ending.history
    /\ history_before' = track_history
    /\ calls' = [ (IF ending.stored
                   THEN ShareInsertion(calls, call.guild_id, ending.result.track_id,
                                       ending.replaced)
                   ELSE calls)
                  EXCEPT ![c] = [call EXCEPT !.pc = "done",
                                             !.returned = ending.returned,
                                             !.result = ending.result,
                                             !.emitted = ending.emitted,
                                             !.end_history =
                                                HistoryOf(ending.history, call.guild_id)]]
    /\ inserted' = IF ending.stored
                   THEN RecordInsertion(inserted, call.guild_id, ending.result.track_id)
                   ELSE inserted
    /\ UNCHANGED history_op

\* Lines 99-100 and 149-150: the call without track.
StartWithoutTrack(c, api, guild_id) ==
    /\ MayStart(c)
    /\ End(c, [IdleCall EXCEPT !.api = api, !.guild_id = guild_id,
                               !.start_history = HistoryOf(track_history, guild_id)],
           Ending("result", NoTrackResult, <<>>, Untouched(track_history)))
    /\ UNCHANGED <<max_history_size, providers, eura, eura_given, listeners, mapVars, aloneVars>>

\* The call record of a call that reached its provider.
Started(api, track_info, source, guild_id) ==
    [IdleCall EXCEPT
        !.api = api, !.track_info = track_info, !.guild_id = guild_id,
        !.source = source,
        !.exclude_live = guild_id \in DOMAIN track_history,
        !.exclude_ids = HistoryOf(track_history, guild_id),
        !.start_history = HistoryOf(track_history, guild_id),
        !.invoked = <<source>>]

\* A call whose built-in provider returns without awaiting anything: the
\* call runs to its end in one step of the event loop.
CallAtOnce(c, api, track_info, source_arg, guild_id) ==
    LET source == Routed(api, track_info, source_arg) IN
    /\ MayStart(c)
    /\ providers[source] = "builtin"
    /\ ~ProviderAwaits(source, track_info, IF source = SOUNDCLOUD THEN NoneStr ELSE eura[source])
    /\ \E ending \in Endings(api, track_info, source, guild_id,
                             Returns(ProviderReturnsAtOnce(source, track_info)),
                             track_history, max_history_size, listeners) :
          End(c, [Started(api, track_info, source, guild_id) EXCEPT
                     !.reply = Returns(ProviderReturnsAtOnce(source, track_info))],
              ending)
    /\ UNCHANGED <<max_history_size, providers, eura, eura_given, listeners, mapVars, aloneVars>>

\* A call up to the await of its provider's search or fetch.
CallStart(c, api, track_info, source_arg, guild_id) ==
    LET source == Routed(api, track_info, source_arg) IN
    /\ MayStart(c)
    /\ \/ providers[source] = "injected"
       \/ ProviderAwaits(source, track_info, IF source = SOUNDCLOUD THEN NoneStr ELSE eura[source])
    /\ calls' = [calls EXCEPT ![c] =
                    [Started(api, track_info, source, guild_id) EXCEPT !.pc = "awaiting"]]
    /\ UNCHANGED <<max_history_size, track_history, providers, eura, eura_given, listeners,
                   history_before, history_op, inserted, mapVars, aloneVars>>

\* The search or fetch of a built-in provider answers, and the call runs to
\* its end.
CallResume(c, response) ==
    LET call == calls[c] IN
    /\ ~Returning
    /\ call.pc = "awaiting"
    /\ providers[call.source] = "builtin"
    /\ response \in Responses(call.source)
    /\ \E result \in ProviderResults(call.source, response, call.exclude_ids) :
       \E ending \in Endings(call.api, call.track_info, call.source, call.guild_id,
                             Returns(result), track_history, max_history_size,
                             listeners) :
          End(c, [call EXCEPT !.reply = Returns(result)], ending)
    /\ UNCHANGED <<max_history_size, providers, eura, eura_given, listeners, mapVars, aloneVars>>

\* An injected provider returns or raises, and the call runs to its end.
CallResumeInjected(c, reply) ==
    LET call == calls[c] IN
    /\ ~Returning
    /\ call.pc = "awaiting"
    /\ providers[call.source] = "injected"
    /\ \E ending \in Endings(call.api, call.track_info, call.source, call.guild_id,
                             reply, track_history, max_history_size, listeners) :
          End(c, [call EXCEPT !.provider_raised = (reply.kind = "raise"),
                              !.reply = reply], ending)
    /\ UNCHANGED <<max_history_size, providers, eura, eura_given, listeners, mapVars, aloneVars>>

\* The caller has its result (or exception); the slot is free again.
Return(c) ==
    /\ calls[c].pc = "done"
    /\ calls' = [calls EXCEPT ![c] = IdleCall]
    /\ history_before' = [g \in {} |-> {}]
    /\ UNCHANGED <<max_history_size, track_history, providers, eura, eura_given, listeners,
                   history_op, inserted, mapVars, aloneVars>>

Apis == { GetNextTrack, GetNextTrackForSource }

AllResponses == SearchResponses \cup SoundCloudResponses

Next ==
    \/ \E g \in GuildArgs, t \in TrackIds \cup {<<>>} : AddToHistory(g, t)
    \/ \E g \in GuildArgs \cup {NoneStr} : ClearHistory(g)
    \/ \E e \in LaterClients \cup {NoneStr} : SetEura(e)
    \/ \E c \in SequentialCalls, api \in Apis, g \in GuildArgs :
          StartWithoutTrack(c, api, g)
    \/ \E c \in SequentialCalls, api \in Apis, t \in TrackInputs,
          s \in AutoplaySource, g \in GuildArgs :
          CallAtOnce(c, api, t, s, g)
    \/ \E c \in SequentialCalls, api \in Apis, t \in TrackInputs,
          s \in AutoplaySource, g \in GuildArgs :
          CallStart(c, api, t, s, g)
    \/ \E c \in SequentialCalls, r \in AllResponses : CallResume(c, r)
    \/ \E c \in SequentialCalls, r \in InjectedReplies : CallResumeInjected(c, r)
    \/ \E c \in SequentialCalls : Return(c)

Spec == Init /\ [][Next]_vars

(***************************************************************************)
(* Two overlapping calls of get_next_track, as tasks of one event loop:    *)
(* the second starts while the first waits on its provider, and the caller *)
(* gathers both results                                                    *)
(***************************************************************************)

\* LavalinkAutoplay(config, eura) with the built-in providers.
ConcurrentInit ==
    /\ EngineInit(Calls, {})
    /\ providers = [s \in AutoplaySource |-> "builtin"]
    /\ eura_given \in Clients

\* The tracks whose provider awaits a search or a fetch.
ConcurrentTracks ==
    { t \in TrackInputs :
        \E e \in Clients :
            ProviderAwaits(map_source_name(t.source_name, t), t, e) }

\* What the searches and fetches answer: nothing, or one track.
ConcurrentResponses ==
    { NoResults }
    \cup { SearchResults(<<SearchTrack(i, SearchUri)>>) : i \in TrackIds }
    \cup SoundCloudResponses

\* A task starts get_next_track and runs it up to the await of its provider;
\* the second task starts while the first waits.
ConcurrentStart(c, track_info, guild_id) ==
    /\ \A d \in DOMAIN calls \ {c} : calls[d].pc \in { "idle", "awaiting" }
    /\ CallStart(c, GetNextTrack, track_info, YOUTUBE, guild_id)

\* The task of call c is finished; its result is kept for the caller.
TaskDone(c) ==
    /\ calls[c].pc = "done"
    /\ calls' = [calls EXCEPT ![c].pc = "returned"]
    /\ history_before' = [g \in {} |-> {}]
    /\ UNCHANGED <<max_history_size, track_history, providers, eura, eura_given, listeners,
                   history_op, inserted, mapVars, aloneVars>>

\* The caller has the results of all its tasks.
Gathered ==
    /\ \A c \in DOMAIN calls : calls[c].pc \in { "idle", "returned" }
    /\ \E c \in DOMAIN calls : calls[c].pc = "returned"
    /\ calls' = [c \in DOMAIN calls |-> IdleCall]
    /\ UNCHANGED <<max_history_size, track_history, providers, eura, eura_given, listeners,
                   history_before, history_op, inserted, mapVars, aloneVars>>

ConcurrentNext ==
    \/ \E c \in Calls, t \in ConcurrentTracks, g \in SessionKeys :
          ConcurrentStart(c, t, g)
    \/ \E c \in Calls, r \in ConcurrentResponses : CallResume(c, r)
    \/ \E c \in Calls : TaskDone(c)
    \/ Gathered
    \/ \E g \in SessionKeys : ClearHistory(g)

SpecConcurrent == ConcurrentInit /\ [][ConcurrentNext]_vars

(***************************************************************************)
(* The history on its own: add_to_history and clear_history, with the      *)
(* order of the insertions recorded                                        *)
(***************************************************************************)

\* LavalinkAutoplay(config): the built-in providers, no client.
HistoryInit ==
    /\ EngineInit(SequentialCalls, SessionKeys)
    /\ providers = [s \in AutoplaySource |-> "builtin"]
    /\ eura = __init__eura(NoneStr)
    /\ eura_given = NoneStr

HistoryNext ==
    \/ \E g \in GuildArgs, t \in HistoryIds \cup {<<>>} : AddToHistory(g, t)
    \/ \E g \in GuildArgs \cup {NoneStr} : ClearHistory(g)

SpecHistory == HistoryInit /\ [][HistoryNext]_vars

\* autoplay.is_in_history(guild_id, track_id), called by the application:
\* the early return of line 85, or the lookup of line 87.
IsInHistory(guild_id, track_id) ==
    /\ ~Returning
    /\ track_history' = IF guild_id = "" \/ ~Truthy(track_id)
                        THEN track_history
                        ELSE HistoryAfterLookup(track_history, guild_id)
    /\ history_op' = LogHistoryOp(history_op, "is_in_history", guild_id, track_id,
                                  track_history)
    /\ UNCHANGED <<max_history_size, providers, eura, eura_given, listeners, calls,
                   history_before, inserted, mapVars, aloneVars>>

LookupNext ==
    \/ HistoryNext
    \/ \E g \in GuildArgs, t \in HistoryIds \cup {<<>>} : IsInHistory(g, t)

SpecLookup == HistoryInit /\ [][LookupNext]_vars

(***************************************************************************)
(* A provider on its own: get_next_track(track_info, exclude_ids) of the   *)
(* YouTube, Spotify and SoundCloud providers                               *)
(***************************************************************************)

\* The tracks handed to a provider: those of the engine, no track, and
\* tracks without author or with None for title.
ProviderTracks ==
    TrackInputs \cup
    { NoTrack,
      LavalinkTrackInfo(<<"a">>, <<>>, <<"9">>, SoundCloudPrefix \o <<"/", "a">>,
                        <<"s", "c">>),
      LavalinkTrackInfo(None, <<"b">>, <<"9">>, SoundCloudPrefix \o <<"/", "a">>,
                        <<"s", "c">>),
      \* title and author of punctuation only
      LavalinkTrackInfo(<<"!">>, <<"?">>, <<"9">>, <<>>, <<"y", "t">>) }

\* The search or fetch a provider makes for a track.
Request(source, track_info) ==
    CASE source = YOUTUBE ->
           [via |-> "ytsearch", query |-> create_search_query(track_info)]
      [] source = SPOTIFY ->
           [via |-> "sprec",
            query |-> <<"s", "p", "r", "e", "c", ":">> \o track_info.identifier]
      [] source = SOUNDCLOUD ->
           [via |-> "fetch",
            query |-> track_info.uri \o <<"/", "r", "e", "c", "o", "m", "m", "e",
                                          "n", "d", "e", "d">>]

\* What the search (YouTube, Spotify) or the fetch (SoundCloud) can answer.
Answers(source) ==
    CASE source = SOUNDCLOUD -> SoundCloudPages
      [] source = SPOTIFY -> SearchResponses
      [] source = YOUTUBE -> SearchResponses \cup LongSearchResponses

\* What the provider's own code is handed for an answer: the search
\* response, or the value sc_auto_play returns for the page.
Handed(source, answer) == IF source = SOUNDCLOUD THEN sc_auto_play(answer) ELSE {answer}

ProviderInit ==
    /\ max_history_size = 0
    /\ track_history = [g \in {} |-> {}]
    /\ providers = [s \in AutoplaySource |-> "builtin"]
    /\ eura = __init__eura(NoneStr)
    /\ eura_given = NoneStr
    /\ listeners = [e \in {} |-> <<>>]
    /\ calls = [c \in {} |-> 0]
    /\ history_before = [g \in {} |-> {}]
    /\ history_op = NotLogged
    /\ inserted = [g \in {} |-> 0]
    /\ map_label = <<>>
    /\ map_track = NoTrack
    /\ map_result = "pending"
    /\ emit_call = NoEmit
    /\ emitter_op = NoEmitterOp
    /\ util_call = NoUtilCall
    /\ \E source \in AutoplaySource, track_info \in ProviderTracks,
          exclude_ids \in SUBSET TrackIds, client \in Clients \cup {NoneStr} :
          provider_call = ProviderCall(source, track_info, exclude_ids,
                                       IF source = SOUNDCLOUD THEN NoneStr ELSE client)

\* The provider returns without any search or fetch.
ProviderReturnAtOnce ==
    /\ provider_call.pc = "idle"
    /\ ~ProviderAwaits(provider_call.source, provider_call.track_info,
                       provider_call.eura)
    /\ provider_call' =
          [provider_call EXCEPT
              !.pc = "done", !.returned = "result",
              !.result = ProviderReturnsAtOnce(provider_call.source,
                                               provider_call.track_info)]
    /\ UNCHANGED <<engineVars, mapVars, emit_call, emitter_op, util_call>>

\* The provider up to the await of its search or fetch.
ProviderRequest ==
    /\ provider_call.pc = "idle"
    /\ ProviderAwaits(provider_call.source, provider_call.track_info,
                      provider_call.eura)
    /\ provider_call' =
          [provider_call EXCEPT
              !.pc = "awaiting",
              !.requests = Append(@, Request(provider_call.source,
                                             provider_call.track_info))]
    /\ UNCHANGED <<engineVars, mapVars, emit_call, emitter_op, util_call>>

\* The search or fetch answers, and the provider returns.
ProviderResume(answer) ==
    /\ provider_call.pc = "awaiting"
    /\ answer \in Answers(provider_call.source)
    /\ \E response \in Handed(provider_call.source, answer) :
       \E result \in ProviderResults(provider_call.source, response,
                                     provider_call.exclude_ids) :
          provider_call' =
             [provider_call EXCEPT !.pc = "done", !.response = answer,
                                   !.returned = "result", !.result = result]
    /\ UNCHANGED <<engineVars, mapVars, emit_call, emitter_op, util_call>>

ProviderNext ==
    \/ ProviderReturnAtOnce
    \/ ProviderRequest
    \/ \E answer \in SearchResponses \cup LongSearchResponses \cup SoundCloudPages :
          ProviderResume(answer)

SpecProvider == ProviderInit /\ [][ProviderNext]_vars

(***************************************************************************)
(* The emitter on its own: on, off, remove_all_listeners and emit          *)
(***************************************************************************)

\* The longest list of listeners of one event.
MaxListeners == 3

Events == { "success", "error" }

\* The callbacks registered: two that return and one that raises.
Callbacks == { "plain", "other", "raising" }

\* AutoplayEventEmitter(): no listener.
EmitInit ==
    /\ max_history_size = 0
    /\ track_history = [g \in {} |-> {}]
    /\ providers = [s \in AutoplaySource |-> "builtin"]
    /\ eura = __init__eura(NoneStr)
    /\ eura_given = NoneStr
    /\ listeners = [e \in {} |-> <<>>]
    /\ calls = [c \in {} |-> 0]
    /\ history_before = [g \in {} |-> {}]
    /\ history_op = NotLogged
    /\ inserted = [g \in {} |-> 0]
    /\ map_label = <<>>
    /\ map_track = NoTrack
    /\ map_result = "pending"
    /\ provider_call = NoProviderCall
    /\ emit_call = NoEmit
    /\ emitter_op = NoEmitterOp
    /\ util_call = NoUtilCall

\* The variables the emitter's calls leave alone.
emitterFrame ==
    <<max_history_size, track_history, providers, eura, eura_given, calls, history_before,
      history_op, inserted, mapVars, provider_call, util_call>>

On(event, callback) ==
    /\ event \in DOMAIN listeners => Len(listeners[event]) < MaxListeners
    /\ listeners' = on(listeners, event, callback)
    /\ emit_call' = NoEmit
    /\ emitter_op' = EmitterOp("on", event, callback, listeners)
    /\ UNCHANGED emitterFrame

Off(event, callback) ==
    /\ listeners' = off(listeners, event, callback)
    /\ emit_call' = NoEmit
    /\ emitter_op' = EmitterOp("off", event, callback, listeners)
    /\ UNCHANGED emitterFrame

RemoveAllListeners(event) ==
    /\ listeners' = remove_all_listeners(listeners, event)
    /\ emit_call' = NoEmit
    /\ emitter_op' = EmitterOp("remove_all_listeners", event, NoneStr, listeners)
    /\ UNCHANGED emitterFrame

\* emit(event, ...), called while an event loop is running, or not.
Emit(event, running) ==
    /\ emit_call' =
          LET done == emit(listeners, event) IN
          [EmitCall(event,
                    IF event \in DOMAIN listeners THEN listeners[event] ELSE <<>>,
                    done.invoked, done.raised)
             EXCEPT !.running = running,
                    !.scheduled = emit_tasks(listeners, event, running)]
    /\ emitter_op' = NoEmitterOp
    /\ UNCHANGED <<listeners, emitterFrame>>

\* The event loop runs the next task that emit created.
RunTask ==
    /\ Len(emit_call.ran) < Len(emit_call.scheduled)
    /\ emit_call' =
          [emit_call EXCEPT !.ran = Append(@, emit_call.scheduled[Len(@) + 1])]
    /\ UNCHANGED <<listeners, emitter_op, emitterFrame>>

EmitNext ==
    \/ \E e \in Events, cb \in Callbacks : On(e, cb)
    \/ \E e \in Events, cb \in Callbacks : Off(e, cb)
    \/ \E e \in Events \cup {NoneStr} : RemoveAllListeners(e)
    \/ \E e \in Events, running \in BOOLEAN : Emit(e, running)

SpecEmit == EmitInit /\ [][EmitNext]_vars

(***************************************************************************)
(* The emitter with asynchronous listeners (coroutine functions), on one   *)
(* event, and the event loop that runs the tasks emit creates              *)
(***************************************************************************)

AsyncCallbacks == { "plain", "async", "raising" }

AsyncNext ==
    \/ \E cb \in AsyncCallbacks : On("success", cb)
    \/ \E running \in BOOLEAN : Emit("success", running)
    \/ RunTask

SpecAsync == EmitInit /\ [][AsyncNext]_vars

(***************************************************************************)
(* emit, one pass of its loop at a time, with listeners that call on and   *)
(* off for the emitted event: `for callback in self._listeners[event]`     *)
(* walks the list the listeners change                                     *)
(***************************************************************************)

\* Listeners that return, that remove themselves, that remove the listener
\* "plain", and that register the listener "other".
ReentrantCallbacks == { "plain", "other", "off_self", "off_plain", "on_other" }

\* The registry after the body of the callback ran.
ListenerBody(callback, registry, event) ==
    CASE callback = "off_self" -> off(registry, event, callback)
      [] callback = "off_plain" -> off(registry, event, "plain")
      [] callback = "on_other" -> on(registry, event, "other")
      [] OTHER -> registry

\* emit(event) up to its loop (lines 32-33).
EmitStart(event) ==
    /\ ~emit_call.iterating
    /\ emit_call' =
          [EmitCall(event,
                    IF event \in DOMAIN listeners THEN listeners[event] ELSE <<>>,
                    <<>>, FALSE)
             EXCEPT !.iterating = event \in DOMAIN listeners]
    /\ emitter_op' = NoEmitterOp
    /\ UNCHANGED <<listeners, emitterFrame>>

\* One pass of the loop: the list iterator gives the element at its
\* position in the list as it is now, or ends the loop.  A listener that
\* registers another one runs only while the list is below MaxListeners.
EmitLoop ==
    /\ emit_call.iterating
    /\ LET list == listeners[emit_call.event]
           position == emit_call.next + 1
       IN IF position > Len(list)
          THEN /\ emit_call' = [emit_call EXCEPT !.iterating = FALSE]
               /\ UNCHANGED listeners
          ELSE /\ list[position] = "on_other" => Len(list) < MaxListeners
               /\ emit_call' = [emit_call EXCEPT !.invoked = Append(@, list[position]),
                                                 !.next = position]
               /\ listeners' = ListenerBody(list[position], listeners, emit_call.event)
    /\ UNCHANGED <<emitter_op, emitterFrame>>

ReentrantNext ==
    \/ \E cb \in ReentrantCallbacks : ~emit_call.iterating /\ On("success", cb)
    \/ EmitStart("success")
    \/ EmitLoop

SpecReentrant == EmitInit /\ [][ReentrantNext]_vars

(***************************************************************************)
(* src/utils: the functions called on their own                            *)
(***************************************************************************)

\* Nothing but the function of utils that is called.
UtilInit ==
    /\ max_history_size = 0
    /\ track_history = [g \in {} |-> {}]
    /\ providers = [s \in AutoplaySource |-> "builtin"]
    /\ eura = __init__eura(NoneStr)
    /\ eura_given = NoneStr
    /\ listeners = [e \in {} |-> <<>>]
    /\ calls = [c \in {} |-> 0]
    /\ history_before = [g \in {} |-> {}]
    /\ history_op = NotLogged
    /\ inserted = [g \in {} |-> 0]
    /\ map_label = <<>>
    /\ map_track = NoTrack
    /\ map_result = "pending"
    /\ provider_call = NoProviderCall
    /\ emit_call = NoEmit
    /\ emitter_op = NoEmitterOp

\* The variables a call of a function of utils leaves alone.
utilFrame == <<engineVars, mapVars, provider_call, emit_call, emitter_op>>

(***************************************************************************)
(* src/utils/http.py: HTTPClient.fetch_page(url), a recursive coroutine.   *)
(* Each frame is at its request ("get"), or awaits the call it made from   *)
(* inside its try block ("in_try": the redirect of line 55, the retry of   *)
(* line 60) or from one of its except blocks ("in_handler": lines 73, 78). *)
(***************************************************************************)

\* `attempt < 1` (lines 58, 71, 76)
RETRY_LIMIT == 1

\* MAX_REDIRECTS of autoplay_apis.py, the default of fast_fetch's parameter
\* max_redirects, which fast_fetch does not pass on.
MAX_REDIRECTS == 2

\* The deepest nesting of fetch_page calls at which the server still
\* answers with a redirect.
MaxFetchDepth == 4

Urls == { "A", "B" }

Frame(url, attempt, pc) == [url |-> url, attempt |-> attempt, pc |-> pc]

\* What the server answers to one request: 200, a status from 300 to 399
\* with a Location header, another status, no answer in time, or a
\* connection error.
ServerAnswers ==
    { [kind |-> "ok"], [kind |-> "status"], [kind |-> "timeout"], [kind |-> "error"] }
    \cup { [kind |-> "redirect", location |-> u] : u \in Urls }

\* client.fetch_page(url) with its session open or not.
FetchCall(url, session) ==
    [fn |-> "fetch_page", session |-> session,
     stack |-> << Frame(url, 0, "get") >>,
     requests |-> <<>>, sleeps |-> <<>>, redirects |-> 0, outcome |-> "pending"]

\* The frame catches an exception raised in its try block and retries: both
\* except blocks test `attempt < 1`.
Catches(frame) == frame.pc = "in_try" /\ frame.attempt < RETRY_LIMIT

RECURSIVE Propagate(_, _)
\* An exception reaches the top frame of `stack`: the frame retries from its
\* except block (sleep, then a new call with attempt + 1), or the exception
\* goes on to its caller.
Propagate(stack, sleeps) ==
    IF stack = <<>>
    THEN [stack |-> <<>>, sleeps |-> sleeps, outcome |-> "raised"]
    ELSE LET n == Len(stack)
             frame == stack[n]
         IN IF Catches(frame)
            THEN [stack |-> Append([stack EXCEPT ![n].pc = "in_handler"],
                                   Frame(frame.url, frame.attempt + 1, "get")),
                  sleeps |-> Append(sleeps, frame.attempt + 1),
                  outcome |-> "pending"]
            ELSE Propagate(SubSeq(stack, 1, n - 1), sleeps)

\* Lines 50-79 for the answer to the request of the top frame, up to the
\* next request or to the end of the whole call.
fetch_page(call, answer) ==
    LET n == Len(call.stack)
        frame == call.stack[n]
        asked == [call EXCEPT !.requests = Append(@, frame.url)]
        raised == Propagate([call.stack EXCEPT ![n].pc = "in_try"], call.sleeps)
    IN CASE answer.kind = "ok" ->
              [asked EXCEPT !.stack = <<>>, !.outcome = "body"]
         [] answer.kind = "redirect" ->
              [asked EXCEPT
                 !.stack = Append([call.stack EXCEPT ![n].pc = "in_try"],
                                  Frame(answer.location, frame.attempt, "get")),
                 !.redirects = @ + 1]
         [] answer.kind = "status" /\ frame.attempt < RETRY_LIMIT ->
              [asked EXCEPT
                 !.stack = Append([call.stack EXCEPT ![n].pc = "in_try"],
                                  Frame(frame.url, frame.attempt + 1, "get")),
                 !.sleeps = Append(@, frame.attempt + 1)]
         [] OTHER ->
              [asked EXCEPT !.stack = raised.stack, !.sleeps = raised.sleeps,
                            !.outcome = raised.outcome]

FetchInit ==
    /\ UtilInit
    /\ \E url \in Urls, session \in BOOLEAN : util_call = FetchCall(url, session)

\* Lines 44-45: the client was not entered.
FetchWithoutSession ==
    /\ util_call.outcome = "pending"
    /\ ~util_call.session
    /\ util_call' = [util_call EXCEPT !.stack = <<>>, !.outcome = "raised"]
    /\ UNCHANGED utilFrame

\* The server answers the pending request.
FetchAnswer(answer) ==
    /\ util_call.outcome = "pending"
    /\ util_call.session
    /\ answer.kind = "redirect" => Len(util_call.stack) < MaxFetchDepth
    /\ util_call' = fetch_page(util_call, answer)
    /\ UNCHANGED utilFrame

FetchNext ==
    \/ FetchWithoutSession
    \/ \E answer \in ServerAnswers : FetchAnswer(answer)

SpecFetch == FetchInit /\ [][FetchNext]_vars

(***************************************************************************)
(* sc_auto_play(base_url) on its own, from the HTML of the recommendations *)
(* page                                                                    *)
(***************************************************************************)

MaxAnchors == 22

\* An <a> tag of the page: its itemprop attribute, whether itemprop comes
\* right before href, and its href.
Anchor(itemprop, itemprop_first, href) ==
    [itemprop |-> itemprop, itemprop_first |-> itemprop_first, href |-> href]

\* SC_LINK_PATTERN, <a\s+itemprop="url"\s+href="(\/[^"]+)", matches the tag.
Matches(anchor) ==
    /\ anchor.itemprop = "url" /\ anchor.itemprop_first
    /\ Len(anchor.href) >= 2 /\ anchor.href[1] = "/"

\* match.group(1) of the matches of SC_LINK_PATTERN.finditer(html), in
\* document order.
finditer(html) ==
    LET matched == SelectSeq(html, Matches)
    IN [i \in 1..Len(matched) |-> matched[i].href]

DigitChars == <<"0", "1", "2", "3", "4", "5", "6", "7", "8", "9">>

\* The href "/tNN" of the i-th anchor of a long page.
NumberedHref(i) == <<"/", "t", DigitChars[(i \div 10) + 1], DigitChars[(i % 10) + 1]>>

\* A page of n anchors with distinct hrefs; the first and then every k-th
\* one (k > 0) has another itemprop.
NumberedDocument(n, k) ==
    [i \in 1..n |-> Anchor(IF k > 0 /\ i % k = 1 THEN "name" ELSE "url", TRUE,
                           NumberedHref(i))]

SampleAnchors ==
    { Anchor("url", TRUE, <<"/", "a">>), Anchor("url", FALSE, <<"/", "b">>),
      Anchor("name", TRUE, <<"/", "c">>), Anchor("url", TRUE, <<"/">>),
      Anchor("url", TRUE, <<"h", "/", "d">>) }

Html(anchors) == [kind |-> "html", anchors |-> anchors]

\* What fast_fetch gives: an exception, or the HTML of a page.
ScAnswers ==
    { Raises(m) : m \in ErrorMessages }
    \cup { Html(NumberedDocument(n, k)) : n \in 0..MaxAnchors, k \in {0, 3, MaxAnchors} }
    \cup { Html(d) : d \in SeqsUpTo(SampleAnchors, 2) }

ScCall(base_url) ==
    [fn |-> "sc_auto_play", pc |-> "fetching", base_url |-> base_url,
     answer |-> NoReply, found |-> <<>>, result |-> RecommendedUrl(None)]

ScInit ==
    /\ UtilInit
    /\ \E base_url \in Urls : util_call = ScCall(base_url)

\* sc_auto_play from the return of fast_fetch on (lines 47-62).
ScAutoPlay(answer) ==
    /\ util_call.fn = "sc_auto_play" /\ util_call.pc = "fetching"
    /\ LET fetched == IF answer.kind = "raise" THEN answer
                      ELSE Page(finditer(answer.anchors))
       IN \E result \in sc_auto_play(fetched) :
             util_call' = [util_call EXCEPT
                              !.pc = "done", !.answer = answer,
                              !.found = IF answer.kind = "raise" THEN <<>>
                                        ELSE found_links(fetched.hrefs),
                              !.result = result]
    /\ UNCHANGED utilFrame

ScNext == \E answer \in ScAnswers : ScAutoPlay(answer)

SpecSc == ScInit /\ [][ScNext]_vars

(***************************************************************************)
(* create_totp() and sp_auto_play(seed_id) on their own; the clock and the *)
(* HMAC-SHA1 digest of the time counter are inputs                         *)
(***************************************************************************)

SampleBytes == { 0, 128, 255 }

\* 20-byte digests: the low 4 bits of the last byte give every offset, and
\* the four bytes read at the offset take the sample values.
TotpDigests ==
    { [i \in 1..20 |->
          IF i = 20 THEN 16 * high + offset
          ELSE IF i \in (offset + 1)..(offset + 4) THEN read[i - offset]
          ELSE 85] :
        offset \in 0..15, high \in {0, 15}, read \in [1..4 -> SampleBytes] }

\* int(time.time() // 30)
TimeCounters == { 0, 1 }

\* The dynamic truncation of lines 71-77; hash_bytes[k] is digest[k + 1].
Truncated(digest) ==
    LET offset == digest[20] % 16
    IN (digest[offset + 1] % 128) * 16777216 + digest[offset + 2] * 65536
       + digest[offset + 3] * 256 + digest[offset + 4]

\* The types that have a zfill method.
HasZfill(type) == type = "str"

\* create_totp(): line 79 calls zfill on the int `code % 1_000_000`; the
\* attribute lookup raises AttributeError before the tuple is built.
create_totp(time_val, digest) ==
    LET value == Truncated(digest) % 1000000
    IN IF HasZfill("int")
       THEN [outcome |-> "return", value |-> value, timestamp |-> time_val * 30000]
       ELSE [outcome |-> "AttributeError", value |-> value, timestamp |-> 0]

SpotifySeeds == { "seed" }

UtilCall(fn, seed_id, time_val, digest) ==
    [fn |-> fn, pc |-> "called", seed_id |-> seed_id, time_val |-> time_val,
     digest |-> digest, outcome |-> "none", value |-> 0, timestamp |-> 0,
     requests |-> 0, result |-> None]

TotpInit ==
    /\ UtilInit
    /\ \E fn \in { "create_totp", "sp_auto_play" }, seed_id \in SpotifySeeds,
          time_val \in TimeCounters, digest \in TotpDigests :
          util_call = UtilCall(fn, seed_id, time_val, digest)

\* create_totp() runs to its end.
CreateTotp ==
    /\ util_call.fn = "create_totp" /\ util_call.pc = "called"
    /\ LET totp == create_totp(util_call.time_val, util_call.digest)
       IN util_call' = [util_call EXCEPT !.pc = "done", !.outcome = totp.outcome,
                                         !.value = totp.value,
                                         !.timestamp = totp.timestamp]
    /\ UNCHANGED utilFrame

\* sp_auto_play(seed_id) runs to its end.  create_totp() is called at line
\* 84, before the try of line 87, so what it raises leaves sp_auto_play.
\* Inside the try, fast_fetch(url, headers=...) raises TypeError before any
\* request (fast_fetch has no `headers` parameter); line 114 catches it and
\* None is returned.
SpAutoPlay ==
    /\ util_call.fn = "sp_auto_play" /\ util_call.pc = "called"
    /\ LET totp == create_totp(util_call.time_val, util_call.digest)
       IN util_call' =
             IF totp.outcome # "return"
             THEN [util_call EXCEPT !.pc = "done", !.outcome = totp.outcome,
                                    !.value = totp.value]
             ELSE [util_call EXCEPT !.pc = "done", !.outcome = "return",
                                    !.value = totp.value,
                                    !.timestamp = totp.timestamp,
                                    !.result = None]
    /\ UNCHANGED utilFrame

TotpNext == CreateTotp \/ SpAutoPlay

SpecTotp == TotpInit /\ [][TotpNext]_vars

(***************************************************************************)
(* Properties                                                              *)
(***************************************************************************)

\* The calls that have just ended with a returned result.
Returned(c) == calls[c].pc = "done" /\ calls[c].returned = "result"

\* C1: whenever get_next_track or get_next_track_for_source returns a
\* success outcome for a non-empty session key, the id of the returned track
\* is in that session's history when the call returns.
C1_SuccessIsRecorded ==
    \A c \in DOMAIN calls :
        (Returned(c) /\ calls[c].result.success /\ calls[c].guild_id # "")
        => is_in_history(track_history, calls[c].guild_id, calls[c].result.track_id)

\* C2: in a sequential run, a success outcome of a built-in provider never
\* carries a track id that was in the session's history when the call started.
C2_NoRepeat ==
    \A c \in DOMAIN calls :
        (Returned(c) /\ calls[c].result.success
           /\ providers[calls[c].source] = "builtin")
        => calls[c].result.track_id \notin calls[c].start_history

\* C2's case: a built-in provider succeeded for a session with history.
C2_Witness ==
    \E c \in DOMAIN calls :
        /\ Returned(c) /\ calls[c].result.success
        /\ calls[c].source = SPOTIFY
        /\ providers[SPOTIFY] = "builtin"
        /\ calls[c].start_history # {}
        /\ Truthy(calls[c].result.track_id)

\* C3: each session's history holds at most max_history_size track ids, for
\* every max_history_size >= 0.
C3_HistoryCapped ==
    \A g \in DOMAIN track_history :
        Cardinality(track_history[g]) <= max_history_size

\* The last n elements of a sequence.
LastOf(seq, n) == SubSeq(seq, Len(seq) - n + 1, Len(seq))

\* C4: after max_history_size + k distinct ids (k >= 1) were inserted into a
\* session, its history holds exactly the max_history_size ids inserted last.
C4_EvictionKeepsNewest ==
    \A g \in DOMAIN inserted :
        (inserted[g].distinct /\ Len(inserted[g].ids) > max_history_size)
        => HistoryOf(track_history, g) = Range(LastOf(inserted[g].ids, max_history_size))

\* C5: the calls never raise; when the provider raised, the call returns a
\* failure and an 'error' event is published.
C5_NeverRaises ==
    \A c \in DOMAIN calls :
        calls[c].pc = "done"
        => /\ calls[c].returned = "result"
           /\ calls[c].provider_raised
              => /\ ~calls[c].result.success
                 /\ \E i \in 1..Len(calls[c].emitted) : calls[c].emitted[i].event = "error"

\* C5's case: the provider raised, with a raising listener on 'error'.
C5_Witness ==
    \E c \in DOMAIN calls :
        /\ calls[c].pc = "done"
        /\ calls[c].provider_raised
        /\ "error" \in DOMAIN listeners
        /\ \E i \in 1..Len(listeners["error"]) : ListenerRaises(listeners["error"][i])

\* C6: a call given a track publishes exactly one event, 'success' if and
\* only if the returned outcome is a success, 'error' otherwise.
C6_OneEventMatchingOutcome ==
    \A c \in DOMAIN calls :
        (calls[c].pc = "done" /\ calls[c].track_info # NoTrack)
        => /\ calls[c].returned = "result"
           /\ Len(calls[c].emitted) = 1
           /\ calls[c].emitted[1].event \in {"success", "error"}
           /\ calls[c].emitted[1].event = "success" <=> calls[c].result.success

\* C7: a call that returns a failure leaves every session's history as it
\* was; the step up to the provider's await changes no history either.
C7_FailureLeavesHistory ==
    /\ [](\A c \in DOMAIN calls :
            (Returned(c) /\ ~calls[c].result.success)
            => track_history = history_before)
    /\ [][\A c \in DOMAIN calls :
            (calls[c].pc = "idle" /\ calls'[c].pc = "awaiting")
            => track_history' = track_history]_vars

\* C7's case: a provider's failure, with some history recorded.
C7_Witness ==
    \E c \in DOMAIN calls :
        /\ Returned(c) /\ ~calls[c].result.success
        /\ calls[c].invoked # <<>>
        /\ calls[c].start_history # {}
        /\ track_history # [g \in {} |-> {}]

\* C8: get_next_track without track returns the failure "No track info
\* provided", invokes no provider and changes no history.
C8_AbsentTrack ==
    \A c \in DOMAIN calls :
        (calls[c].pc = "done" /\ calls[c].api = GetNextTrack
           /\ calls[c].track_info = NoTrack)
        => /\ calls[c].returned = "result"
           /\ ~calls[c].result.success
           /\ calls[c].result.error = "No track info provided"
           /\ calls[c].invoked = <<>>
           /\ track_history = history_before

\* C8's case: the call without track, with some history recorded.
C8_Witness ==
    \E c \in DOMAIN calls :
        /\ calls[c].pc = "done" /\ calls[c].api = GetNextTrack
        /\ calls[c].track_info = NoTrack
        /\ track_history # [g \in {} |-> {}]

\* label is alias, with any of its letters in upper case.
IsCaseVariant(label, alias) ==
    /\ Len(label) = Len(alias)
    /\ \A i \in 1..Len(alias) : label[i] = alias[i] \/ label[i] = UpperChar(alias[i])

\* C9: every alias of the table, in any letter case and whatever the track's
\* URI, maps to its source.
C9_AliasesMap ==
    map_result # "pending"
    => \A p \in AliasTable : IsCaseVariant(map_label, p[1]) => map_result = p[2]

\* C9's case: an upper-case alias, with a URI of another catalog.
C9_Witness ==
    /\ map_result = SOUNDCLOUD
    /\ map_label = <<"S", "C", "s", "E", "a", "R", "c", "H">>
    /\ map_track # NoTrack
    /\ map_track.uri = <<"h", "t", "t", "p", "s", ":", "/", "/", "y", "o", "u",
                         "t", "u", ".", "b", "e", "/", "x">>

\* C10: map_source_name returns one of the three sources for every label and
\* track, and YOUTUBE for every non-empty label that matches no alias,
\* whatever the URI.
C10_TotalWithDefault ==
    /\ map_result = "pending" => ENABLED MapSourceName
    /\ map_result # "pending"
       => /\ map_result \in AutoplaySource
          /\ (Truthy(map_label) /\ \A p \in AliasTable : ~IsCaseVariant(map_label, p[1]))
             => map_result = YOUTUBE

\* C10's case: an unknown label, with a URI of another catalog.
C10_Witness ==
    /\ map_result = YOUTUBE
    /\ map_label = <<"d", "e", "e", "z", "e", "r">>
    /\ map_track # NoTrack
    /\ map_track.uri = <<"h", "t", "t", "p", "s", ":", "/", "/", "o", "p", "e",
                         "n", ".", "s", "p", "o", "t", "i", "f", "y", ".", "c",
                         "o", "m", "/", "t">>

\* The URI of map_track holds `host`, in any letter case.
UriHolds(host) ==
    /\ map_track # NoTrack
    /\ Truthy(map_track.uri)
    /\ Contains(Lower(map_track.uri), host)

\* C11: for an empty or missing label, map_source_name answers from the
\* lower-cased URI: YOUTUBE for youtube.com or youtu.be, else SPOTIFY for
\* spotify.com, else SOUNDCLOUD for soundcloud.com, else (and without track
\* or without URI) YOUTUBE.
C11_EmptyLabelSniffsUri ==
    (map_result # "pending" /\ ~Truthy(map_label))
    => map_result =
         IF UriHolds(YoutubeComHost) \/ UriHolds(YoutuBeHost) THEN YOUTUBE
         ELSE IF UriHolds(SpotifyComHost) THEN SPOTIFY
         ELSE IF UriHolds(SoundcloudComHost) THEN SOUNDCLOUD
         ELSE YOUTUBE

\* C11's case: no label, and a URI that names two catalogs.
C11_Witness ==
    /\ map_result = YOUTUBE
    /\ map_label = None
    /\ UriHolds(SpotifyComHost)
    /\ UriHolds(YoutuBeHost)

\* C12: after clear_history(g), is_in_history(g, t) is false for every id t
\* that was recorded in g; after clear_history(), it is false for every
\* session and every id.
C12_ClearedIsForgotten ==
    history_op.op = "clear_history"
    => /\ history_op.guild_id \in SessionKeys
          => \A t \in HistoryOf(history_op.before, history_op.guild_id) :
                ~is_in_history(track_history, history_op.guild_id, t)
       /\ history_op.guild_id = NoneStr
          => \A g \in GuildArgs, t \in HistoryIds :
                ~is_in_history(track_history, g, t)

\* C12's case: one of two sessions with history was cleared.
C12_Witness ==
    /\ history_op.op = "clear_history"
    /\ history_op.guild_id = "g1"
    /\ HistoryOf(history_op.before, "g1") # {}
    /\ HistoryOf(track_history, "g2") # {}

\* C13: add_to_history with an empty session key or an empty track id leaves
\* the whole history as it was, creating no session; is_in_history with an
\* empty session key or an empty track id is false.
C13_EmptyArgumentsIgnored ==
    /\ (history_op.op = "add_to_history"
          /\ (history_op.guild_id = "" \/ history_op.track_id = <<>>))
       => track_history = history_op.before
    /\ \A g \in GuildArgs, t \in HistoryIds \cup {<<>>} :
          (g = "" \/ t = <<>>) => ~is_in_history(track_history, g, t)

\* C13's case: an id was offered for the empty session key.
C13_Witness ==
    /\ history_op.op = "add_to_history"
    /\ history_op.guild_id = ""
    /\ history_op.track_id # <<>>
    /\ history_op.before # [g \in {} |-> {}]

\* C14: clear_history with the empty string as session key removes no track
\* id from any session's history.
C14_ClearEmptyKeyIsNoOp ==
    (history_op.op = "clear_history" /\ history_op.guild_id = "")
    => \A g \in DOMAIN history_op.before :
          history_op.before[g] \subseteq HistoryOf(track_history, g)

\* The entry point a call did not use.
OtherApi(api) == IF api = GetNextTrack THEN GetNextTrackForSource ELSE GetNextTrack

\* C15: for a track, a session key and an answer of the provider,
\* get_next_track_for_source with the source map_source_name gives and
\* get_next_track end alike: same returned outcome, same history, same
\* published events, also when the provider raises.
C15_ForSourceAgrees ==
    \A c \in DOMAIN calls :
        LET call == calls[c] IN
        (call.pc = "done" /\ call.track_info # NoTrack
           /\ call.source = map_source_name(call.track_info.source_name, call.track_info))
        => \E other \in Endings(OtherApi(call.api), call.track_info, call.source,
                                call.guild_id, call.reply, history_before,
                                max_history_size, listeners) :
              /\ other.returned = call.returned
              /\ other.result = call.result
              /\ other.emitted = call.emitted
              /\ other.history = track_history

\* The track handed to the provider is absent, or lacks title or author.
LacksTitleOrAuthor(track_info) ==
    \/ track_info = NoTrack
    \/ ~Truthy(track_info.title)
    \/ ~Truthy(track_info.author)

\* C16: for a track that is absent or has an empty title or an empty author,
\* each provider's get_next_track returns the failure "Invalid track info
\* provided", and makes no search and no fetch.
C16_InvalidTrackFailsFast ==
    (provider_call.pc # "off" /\ LacksTitleOrAuthor(provider_call.track_info))
    => /\ provider_call.pc # "awaiting"
       /\ provider_call.requests = <<>>
       /\ provider_call.pc = "done"
          => /\ provider_call.returned = "result"
             /\ ~provider_call.result.success
             /\ provider_call.result.error = "Invalid track info provided"

\* C16's case: a track without title, for a provider with a client.
C16_Witness ==
    /\ provider_call.pc = "done"
    /\ provider_call.source = YOUTUBE
    /\ provider_call.eura # NoneStr
    /\ provider_call.track_info # NoTrack
    /\ provider_call.track_info.title = <<>>

\* C17: every outcome a provider's get_next_track returns, success or
\* failure, carries the provider's own source.
C17_OutcomeCarriesOwnSource ==
    provider_call.pc = "done"
    => /\ provider_call.returned = "result"
       /\ provider_call.result.source = provider_call.source

\* C17's case: a failure because the only result is excluded.
C17_Witness ==
    /\ provider_call.pc = "done"
    /\ provider_call.source = SPOTIFY
    /\ ~provider_call.result.success
    /\ provider_call.response.kind = "tracks"
    /\ provider_call.response.tracks # <<>>
    /\ provider_call.response.tracks[1].identifier \in provider_call.exclude_ids

\* C19: when the search (YouTube, Spotify) or the page fetch (SoundCloud)
\* raises an exception with message m, the provider's get_next_track returns
\* a failure whose error is m, with the provider's source.
C19_RetrievalErrorCarriesMessage ==
    (provider_call.pc = "done" /\ provider_call.response.kind = "raise")
    => /\ provider_call.returned = "result"
       /\ ~provider_call.result.success
       /\ provider_call.result.error = provider_call.response.message
       /\ provider_call.result.source = provider_call.source

\* An outcome is a success (url present, error absent) or a failure (error
\* present, url and track_id absent); absent is None.
SuccessOrFailure(result) ==
    \/ result.success /\ result.url # None /\ result.error = NoneStr
    \/ /\ ~result.success
       /\ result.error # NoneStr
       /\ result.url = None
       /\ result.track_id = None

C20_RaisingListenerIsContained ==
    emit_call.event # NoneStr
    => /\ ~emit_call.raised
       /\ \A i \in 1..Len(emit_call.registered) :
             ListenerRaises(emit_call.registered[i])
             => /\ Len(emit_call.invoked) = Len(emit_call.registered)
                /\ \A j \in (i + 1)..Len(emit_call.registered) :
                      emit_call.invoked[j] = emit_call.registered[j]

\* C20's case: a raising listener between two others.
C20_Witness ==
    /\ emit_call.event = "error"
    /\ emit_call.registered = <<"plain", "raising", "other">>

\* The listeners registered for an event.
Registered(registry, event) ==
    IF event \in DOMAIN registry THEN registry[event] ELSE <<>>

\* A list without its i-th element.
WithoutIndex(list, i) == SubSeq(list, 1, i - 1) \o SubSeq(list, i + 1, Len(list))

\* C21: emit(e) invokes exactly the listeners registered for e, once per
\* registration and in registration order, and no other; on(e, cb) adds one
\* registration after those of e; off(e, cb) takes one registration of cb
\* out of e and keeps the order of the others; off for an unknown event or an
\* unregistered callback changes nothing.
C21_EmitInvokesRegistered ==
    /\ emit_call.event # NoneStr
       => /\ ~emit_call.raised
          /\ emit_call.invoked = Registered(listeners, emit_call.event)
    /\ emitter_op.op = "on"
       => \A e \in Events :
             Registered(listeners, e) =
                IF e = emitter_op.event
                THEN Append(Registered(emitter_op.before, e), emitter_op.callback)
                ELSE Registered(emitter_op.before, e)
    /\ emitter_op.op = "off"
       => LET old == Registered(emitter_op.before, emitter_op.event)
              new == Registered(listeners, emitter_op.event)
          IN IF emitter_op.callback \in Range(old)
             THEN /\ \E i \in 1..Len(old) :
                        old[i] = emitter_op.callback /\ new = WithoutIndex(old, i)
                  /\ \A e \in Events \ {emitter_op.event} :
                        Registered(listeners, e) = Registered(emitter_op.before, e)
             ELSE listeners = emitter_op.before

\* C21's case: an emit with listeners left after on and off calls, and
\* listeners of the other event.
C21_Witness ==
    /\ emit_call.event = "success"
    /\ emit_call.invoked = <<"other", "plain">>
    /\ Registered(listeners, "error") = <<"plain", "raising", "plain">>

\* C22: emit does not raise because of an asynchronous listener; every
\* asynchronous listener registered for the emitted event is scheduled, once
\* per emit, whether an event loop is running or not, and its body is run
\* by the loop, once, not by emit.
C22_AsyncListenersScheduled ==
    emit_call.event # NoneStr
    => /\ ~emit_call.raised
       /\ emit_call.scheduled = SelectSeq(emit_call.registered, ListenerIsAsync)
       /\ Len(emit_call.ran) <= Len(emit_call.scheduled)
       /\ \A i \in 1..Len(emit_call.ran) : emit_call.ran[i] = emit_call.scheduled[i]

\* C23: after the constructor or set_eura was given the client c (or None),
\* the engine, the YouTube provider and the Spotify provider all hold c, and
\* nothing is held for the SoundCloud provider.
C23_ClientIsShared ==
    /\ DOMAIN eura = { "engine", YOUTUBE, SPOTIFY }
    /\ \A h \in DOMAIN eura : eura[h] = eura_given

C23_Witness ==
    /\ eura_given \in LaterClients \ Clients
    /\ eura[SPOTIFY] = eura_given

\* The call c has returned a success with a track id to its caller, or is
\* about to.
Succeeded(c) ==
    /\ calls[c].pc \in { "done", "returned" }
    /\ calls[c].returned = "result"
    /\ calls[c].result.success
    /\ Truthy(calls[c].result.track_id)

\* C24: while a get_next_track call for one session waits on its provider,
\* a call for another session can start, its provider's answer can be taken
\* and the call can return: it does not wait for the first call.
C24_SessionsDoNotWait ==
    \A c \in DOMAIN calls : \A d \in DOMAIN calls \ {c} :
        calls[c].pc = "awaiting"
        => /\ calls[d].pc = "idle"
              => \A t \in ConcurrentTracks :
                 \A g \in SessionKeys \ {calls[c].guild_id} :
                    ENABLED ConcurrentStart(d, t, g)
           /\ calls[d].pc = "awaiting" /\ calls[d].guild_id # calls[c].guild_id
              => \A r \in ConcurrentResponses \cap Responses(calls[d].source) :
                    ENABLED CallResume(d, r)
           /\ calls[d].pc = "done" => ENABLED TaskDone(d)

C24_Witness ==
    /\ DOMAIN calls = Calls
    /\ calls["c1"].pc = "awaiting"
    /\ Succeeded("c2")
    /\ calls["c2"].pc = "returned"
    /\ calls["c2"].guild_id # calls["c1"].guild_id

\* C25: when two overlapping get_next_track calls on one session both
\* succeed, the ids of both were in the session's history when each of them
\* had published its 'success' event.
C25_BothRecordedBeforePublish ==
    \A c \in DOMAIN calls : \A d \in DOMAIN calls \ {c} :
        Succeeded(c) /\ Succeeded(d) /\ calls[c].guild_id = calls[d].guild_id
        => { calls[c].result.track_id, calls[d].result.track_id }
              \subseteq calls[c].end_history

\* C26: two overlapping get_next_track calls for one session never both
\* return a success with the same track id.
C26_OverlappingCallsDiffer ==
    \A c \in DOMAIN calls : \A d \in DOMAIN calls \ {c} :
        Succeeded(c) /\ Succeeded(d) /\ calls[c].guild_id = calls[d].guild_id
        => calls[c].result.track_id # calls[d].result.track_id

\* C27: every event published by get_next_track and
\* get_next_track_for_source carries, as its source, the canonical value of
\* the source the request was routed to, on the success, failure and
\* exception paths.
C27_EventsCarryCanonicalSource ==
    \A c \in DOMAIN calls :
        (calls[c].pc = "done" /\ calls[c].invoked # <<>>)
        => \A i \in 1..Len(calls[c].emitted) :
              calls[c].emitted[i].source = SourceValue(calls[c].source)

\* C28: get_next_track calls one provider, once: the provider bound to
\* map_source_name(track.source_name, track), with the session's history as
\* the exclude set; no other provider is called afterwards, whatever the
\* provider gives.
C28_OneProviderOnce ==
    /\ [](\A c \in DOMAIN calls :
            (calls[c].api = GetNextTrack /\ calls[c].track_info # NoTrack)
            => calls[c].invoked =
                  << map_source_name(calls[c].track_info.source_name,
                                     calls[c].track_info) >>)
    /\ [][\A c \in DOMAIN calls :
            /\ (calls[c].pc = "idle" /\ calls'[c].api = GetNextTrack
                 /\ calls'[c].track_info # NoTrack)
               => \/ calls'[c].exclude_ids = HistoryOf(track_history, calls'[c].guild_id)
                  \/ calls'[c].pc = "done"
            /\ (calls[c].pc = "awaiting" /\ calls'[c].pc = "done")
               => calls'[c].invoked = calls[c].invoked]_vars

\* C28's case: the provider failed, with a history for the session.
C28_Witness ==
    \E c \in DOMAIN calls :
        /\ Returned(c) /\ ~calls[c].result.success
        /\ calls[c].api = GetNextTrack
        /\ calls[c].invoked = <<SPOTIFY>>
        /\ calls[c].start_history # {}
        /\ calls[c].exclude_ids = calls[c].start_history

\* The positions, among the first 10 results, of the tracks that have an
\* identifier which is not excluded.
YouTubeCandidates(tracks, exclude_ids) ==
    { i \in 1..Len(tracks) :
        /\ i <= 10
        /\ tracks[i].info
        /\ Truthy(tracks[i].identifier)
        /\ tracks[i].identifier \notin exclude_ids }

\* C29: the YouTube provider returns a success if and only if one of the
\* first 10 search results has an identifier that is not excluded; the
\* success carries the identifier and the uri of one of the first 5 such
\* results.
C29_YouTubeSelection ==
    (provider_call.pc = "done" /\ provider_call.source = YOUTUBE)
    => LET tracks == IF provider_call.response.kind = "tracks"
                     THEN provider_call.response.tracks ELSE <<>>
           candidates == YouTubeCandidates(tracks, provider_call.exclude_ids)
           result == provider_call.result
       IN /\ provider_call.returned = "result"
          /\ result.success <=> candidates # {}
          /\ result.success
             => \E i \in candidates :
                   /\ Cardinality({ j \in candidates : j < i }) < 5
                   /\ result.track_id = tracks[i].identifier
                   /\ result.url = tracks[i].uri

\* C29's case: the search answered more than 5 candidates, the first of
\* them excluded, and the provider returned the last one it may select.
C29_Witness ==
    /\ provider_call.pc = "done" /\ provider_call.source = YOUTUBE
    /\ provider_call.response.kind = "tracks"
    /\ Len(provider_call.response.tracks) > 10
    /\ provider_call.exclude_ids = { <<"1">> }
    /\ provider_call.result.success
    /\ provider_call.result.track_id = <<"2">>
    /\ provider_call.result.url = <<>>

\* The message of the YouTube provider's failure, for each of its failure
\* conditions, on a track with title and author (blank ones for the empty
\* query).
YouTubeFailureMessage(condition) ==
    LET track_info == LavalinkTrackInfo(<<"a">>, <<"b">>, <<"9">>, <<>>, <<"y", "t">>)
        blank == LavalinkTrackInfo(<<" ">>, <<" ">>, <<"9">>, <<>>, <<"y", "t">>)
        found == SearchResults(<< SearchTrack(<<"1">>, SearchUri) >>)
    IN CASE condition = "empty query" ->
              { ProviderReturnsAtOnce(YOUTUBE, blank).error }
         [] condition = "no client" ->
              { ProviderReturnsAtOnce(YOUTUBE, track_info).error }
         [] condition = "no tracks" ->
              { r.error : r \in YouTubeResults(NoResults, {}) }
         [] condition = "all excluded" ->
              { r.error : r \in YouTubeResults(found, { <<"1">> }) }

\* The failure condition a call of the YouTube provider met, if any.
YouTubeFailureCondition(call) ==
    IF ~validate_track_info(call.track_info) THEN "invalid track"
    ELSE IF call.eura = NoneStr THEN "no client"
    ELSE IF create_search_query(call.track_info) = <<>> THEN "empty query"
    ELSE IF call.response.kind = "raise" THEN "search raised"
    ELSE IF call.response.kind = "none" THEN "no tracks"
    ELSE IF call.response.tracks = <<>> THEN "no tracks"
    ELSE IF YouTubeCandidates(call.response.tracks, call.exclude_ids) = {}
    THEN "all excluded"
    ELSE "none"

YouTubeFailureConditions == { "empty query", "no client", "no tracks", "all excluded" }

\* C30: the failure message of the YouTube provider for one of its four
\* failure conditions (empty query, no client, no tracks, all candidates
\* excluded) is not the message of any of the other three.
C30_DistinctFailureMessages ==
    (/\ provider_call.pc = "done" /\ provider_call.source = YOUTUBE
     /\ YouTubeFailureCondition(provider_call) \in YouTubeFailureConditions)
    => /\ ~provider_call.result.success
       /\ \A other \in YouTubeFailureConditions \ { YouTubeFailureCondition(provider_call) } :
             provider_call.result.error \notin YouTubeFailureMessage(other)

\* C31: the Spotify provider makes at most one search per get_next_track,
\* with the query 'sprec:<seed id>', and looks at the first returned track
\* only: when that track's identifier is excluded the outcome is a failure,
\* whatever follows it in the result, and a success is that first track.
C31_SpotifyFirstTrackOnly ==
    (provider_call.pc # "off" /\ provider_call.source = SPOTIFY)
    => /\ Len(provider_call.requests) <= 1
       /\ \A i \in 1..Len(provider_call.requests) :
             /\ provider_call.requests[i].via = "sprec"
             /\ provider_call.requests[i].query =
                   <<"s", "p", "r", "e", "c", ":">> \o provider_call.track_info.identifier
       /\ provider_call.pc = "done"
          => LET tracks == IF provider_call.response.kind = "tracks"
                           THEN provider_call.response.tracks ELSE <<>>
             IN /\ (tracks # <<>> /\ tracks[1].identifier \in provider_call.exclude_ids)
                   => ~provider_call.result.success
                /\ provider_call.result.success
                   => /\ tracks # <<>>
                      /\ provider_call.result.track_id = tracks[1].identifier
                      /\ provider_call.result.url = tracks[1].uri

\* C31's case: the first track is excluded, the second is not, and the
\* provider failed after its one search.
C31_Witness ==
    /\ provider_call.pc = "done" /\ provider_call.source = SPOTIFY
    /\ Len(provider_call.requests) = 1
    /\ provider_call.response.kind = "tracks"
    /\ Len(provider_call.response.tracks) = 2
    /\ provider_call.response.tracks[1].identifier \in provider_call.exclude_ids
    /\ provider_call.response.tracks[2].info
    /\ Truthy(provider_call.response.tracks[2].identifier)
    /\ provider_call.response.tracks[2].identifier \notin provider_call.exclude_ids
    /\ ~provider_call.result.success

\* The string is not empty and every character of it is one the query
\* builder removes: neither a word character nor a hyphen.
OnlyStripped(s) ==
    /\ Truthy(s)
    /\ \A i \in 1..Len(s) : ~IsWordChar(s[i]) /\ s[i] # "-"

\* The input errors of a provider's call.
ProviderInputError(call) ==
    /\ call.track_info # NoTrack
    /\ CASE call.source = SPOTIFY ->
               ~Truthy(call.track_info.identifier) \/ call.eura = NoneStr
          [] call.source = YOUTUBE ->
               \/ call.eura = NoneStr
               \/ OnlyStripped(call.track_info.title) /\ OnlyStripped(call.track_info.author)
          [] call.source = SOUNDCLOUD -> ~Truthy(call.track_info.uri)

\* C32: a provider called with an input error (Spotify: empty seed id or no
\* client; YouTube: no client, or title and author made only of characters
\* the query builder strips; SoundCloud: empty URI) makes no search and no
\* fetch, and returns a failure.
C32_InputErrorsBeforeIO ==
    (provider_call.pc # "off" /\ ProviderInputError(provider_call))
    => /\ provider_call.requests = <<>>
       /\ provider_call.pc # "awaiting"
       /\ provider_call.pc = "done"
          => provider_call.returned = "result" /\ ~provider_call.result.success

\* C33: a fetch_page call that is answered with statuses other than 200,
\* timeouts and connection errors (no redirect) makes at most 1 + the retry
\* count requests, 2 with the built-in single retry, all to the same URL,
\* and sleeps between two attempts.
C33_RequestsCapped ==
    (util_call.fn = "fetch_page" /\ util_call.redirects = 0)
    => /\ Len(util_call.requests) <= 2
       /\ \A i \in 1..Len(util_call.requests) :
             util_call.requests[i] = util_call.requests[1]
       /\ Len(util_call.sleeps) + 1 >= Len(util_call.requests)

\* C34: one fetch_page call follows at most MAX_REDIRECTS redirects.
C34_RedirectsCapped ==
    util_call.fn = "fetch_page" => util_call.redirects <= MAX_REDIRECTS

\* The number of times x occurs in the sequence.
Occurrences(seq, x) == Cardinality({ i \in 1..Len(seq) : seq[i] = x })

\* C35: when the listeners call on and off for the emitted event during
\* emit, a listener that was registered (once) when emit started and is
\* still registered (once) when emit ends was invoked exactly once.
C35_ReentrantListeners ==
    (emit_call.event # NoneStr /\ ~emit_call.iterating
     /\ emit_call.event \in DOMAIN listeners)
    => \A cb \in ReentrantCallbacks :
          (/\ Occurrences(emit_call.registered, cb) = 1
           /\ Occurrences(listeners[emit_call.event], cb) = 1)
          => Occurrences(emit_call.invoked, cb) = 1

\* Every session other than guild_id has, after the step, the entry it had
\* before it.
OtherSessionsKept(guild_id) ==
    \A g \in (DOMAIN track_history \cup DOMAIN track_history') \ {guild_id} :
        /\ g \in DOMAIN track_history /\ g \in DOMAIN track_history'
        /\ track_history'[g] = track_history[g]

\* C36: add_to_history(g, .), clear_history(g) and every step of
\* get_next_track(., g) for a non-empty session key g leave the history of
\* every other session as it was, and the exclude set a call for g hands to
\* its provider is the set of ids recorded for g.
C36_SessionsIsolated ==
    [][/\ \A g \in SessionKeys :
            /\ (\E t \in TrackIds \cup {<<>>} : AddToHistory(g, t))
               => OtherSessionsKept(g)
            /\ ClearHistory(g) => OtherSessionsKept(g)
       /\ \A c \in DOMAIN calls :
            calls'[c].pc # calls[c].pc
            => LET g == IF calls[c].pc = "idle"
                        THEN calls'[c].guild_id ELSE calls[c].guild_id
               IN g \in SessionKeys
                  => /\ OtherSessionsKept(g)
                     /\ (calls[c].pc = "idle" /\ calls'[c].invoked # <<>>)
                        => calls'[c].exclude_ids = HistoryOf(track_history, g)
      ]_vars

\* C36's case: a call for g1 succeeded and recorded ids for g1 while g2 has
\* a history of its own, with an id that g1 does not have.
C36_Witness ==
    \E c \in DOMAIN calls :
        /\ calls[c].pc = "done" /\ calls[c].api = GetNextTrack
        /\ calls[c].guild_id = "g1" /\ calls[c].result.success
        /\ calls[c].exclude_ids # {}
        /\ "g1" \in DOMAIN track_history /\ "g2" \in DOMAIN track_history
        /\ track_history["g1"] # calls[c].start_history
        /\ track_history["g2"] \ track_history["g1"] # {}

\* C37: is_in_history leaves the history as it found it, whatever its
\* arguments, and a session key is in the history only if add_to_history
\* stored an id for it since the session was last cleared.
C37_LookupIsPure ==
    /\ history_op.op = "is_in_history" => track_history = history_op.before
    /\ \A g \in DOMAIN track_history :
          /\ g \in SessionKeys
          /\ inserted[g] # NoInsertions
          /\ track_history[g] # {}

\* C37's case: a session that has no entry was looked up, next to a session
\* that has one.
C37_Witness ==
    /\ history_op.op = "is_in_history"
    /\ history_op.guild_id \in SessionKeys
    /\ Truthy(history_op.track_id)
    /\ history_op.guild_id \notin DOMAIN history_op.before
    /\ DOMAIN history_op.before # {}

\* C38: sc_auto_play makes its candidates from the first 20 matching
\* anchors of the page at most, in document order, each the href after
\* 'https://soundcloud.com' (n matching anchors give min(n, 20) candidates);
\* it returns one of the candidates, and None when no anchor matches or the
\* fetch fails.
C38_SoundCloudCandidates ==
    (util_call.fn = "sc_auto_play" /\ util_call.pc = "done")
    => LET matching == IF util_call.answer.kind = "raise" THEN <<>>
                       ELSE finditer(util_call.answer.anchors)
           candidates == util_call.found
       IN /\ Len(candidates) = (IF Len(matching) < 20 THEN Len(matching) ELSE 20)
          /\ \A i \in 1..Len(candidates) :
                candidates[i] = SoundCloudPrefix \o matching[i]
          /\ IF matching = <<>>
             THEN util_call.result = RecommendedUrl(None)
             ELSE \E i \in 1..Len(candidates) :
                     util_call.result = RecommendedUrl(candidates[i])

\* C38's case: a page with more than 20 matching anchors and others in
\* between, and the 20th candidate returned.
C38_Witness ==
    /\ util_call.fn = "sc_auto_play" /\ util_call.pc = "done"
    /\ util_call.answer.kind = "html"
    /\ Len(finditer(util_call.answer.anchors)) > 20
    /\ \E i \in 1..Len(util_call.answer.anchors) : ~Matches(util_call.answer.anchors[i])
    /\ Len(util_call.found) = 20
    /\ util_call.result = RecommendedUrl(util_call.found[20])

\* C39: for every time counter and every 20-byte digest create_totp
\* returns, without raising, the value read at the digest's offset modulo
\* 1,000,000 as a code of six decimal digits, with the timestamp
\* counter * 30000.
C39_TotpReturnsSixDigits ==
    (util_call.fn = "create_totp" /\ util_call.pc = "done")
    => /\ util_call.outcome = "return"
       /\ util_call.value = Truncated(util_call.digest) % 1000000
       /\ util_call.value \in 0..999999
       /\ util_call.timestamp = util_call.time_val * 30000

\* C40: sp_auto_play never raises; whatever fails, it returns None.
C40_SpotifyNeverRaises ==
    (util_call.fn = "sp_auto_play" /\ util_call.pc = "done")
    => util_call.outcome = "return"

====
